---- MODULE Spec2Model ----
(***************************************************************************)
(* Process supervisor of muzic_channelz (src/app/services.py) as a state   *)
(* machine over the asyncio event loop.  One action is one run of a        *)
(* coroutine between two points where it really suspends (process wait,    *)
(* task await, sleep, subprocess spawn).  load_admin_state and             *)
(* load_backgrounds never yield to the loop (store.py reads the file       *)
(* synchronously), so a check made after them is in the same step as the   *)
(* code before them.                                                       *)
(*                                                                         *)
(* Every successful spawn creates one encoder process, one stop event, one *)
(* metadata loop task and one watch task; the four are one entry inst[p],  *)
(* p \in Procs.  0 stands for None / a missing dict key.  An index is free *)
(* again once its process has exited, its tasks are done and nothing       *)
(* refers to it, so MaxProcs bounds the entries that exist at one time.    *)
(***************************************************************************)
EXTENDS Integers, Sequences, FiniteSets, TLC

\* ---- bounds of the model ----
NumChannels == 1
NumCallers == 2
MaxProcs == 2
NumCallbacks == 2
MaxLines == 3
MaxLineLen == 3
MaxLogBytes == 4
MaxProviders == 3
MaxNameLen == 3
MaxTokens == 5
MaxImageProviders == 2
MaxTextLen == 5
MaxBudget == 3
MaxCycles == 3
MaxCoord == 102
MaxLookupProviders == 2

\* ---- constants of the program ----
BaseDelay == 15
EscalatedDelay == 60
CooldownWindow == 120

Channels == 1..NumChannels
Callers == 1..NumCallers
Procs == 1..MaxProcs
Callbacks == 1..NumCallbacks

\* MAX_CHANNEL_LOG_BYTES and TRIM_KEEP_BYTES (2 MiB and 1 MiB), scaled
MAX_CHANNEL_LOG_BYTES == MaxLogBytes
TRIM_KEEP_BYTES == MAX_CHANNEL_LOG_BYTES \div 2

\* the longest file of the model
MaxFileLen == MAX_CHANNEL_LOG_BYTES + 2 * MaxLineLen

VARIABLES
  known,          \* ids of state.channels in the persisted admin state
  enabled,        \* ids of the channels with enabled = True
  hasProfile,     \* state.ffmpeg_profiles is not empty
  named,          \* ids of the channels whose ffmpeg_profile_id is the name of a
                  \* profile of state.ffmpeg_profiles
  running,        \* _running: channel -> process (0: no key)
  now_playing_stop,   \* _now_playing_stop: channel -> stop event
  now_playing_tasks,  \* _now_playing_tasks: channel -> metadata loop task
  watch_tasks,    \* _watch_tasks: channel -> watch task
  stop_requested, \* _stop_requested
  last_auto_restart_time,  \* _last_auto_restart_time, as the seconds passed since
                  \* it was set, counted up to CooldownWindow (-1: no key)
  inst,           \* per spawn: the process, its event, its loop task, its watch task
  op,             \* operation a caller runs ("none": no call in flight)
  chan,           \* its channel
  pc,             \* its position
  ref,            \* process or task it awaits
  todo,           \* what is left of the list it iterates
  hist,           \* per channel: "stopped" once a stop of it that stopped its
                  \* process has returned with no operation in flight,
                  \* "stopped_idle" once one that found it not running has;
                  \* "stopped_long" when time has passed since;
                  \* "all_stopped" once a stopAll has returned with no
                  \* operation in flight and the channel not running;
                  \* "start_after_stop" while a start called in "stopped" is in
                  \* flight; "none" from the call of any other start, restart or
                  \* startAll
  log_listeners,  \* _log_listeners[cid] of one channel: the list of callbacks
  pump,           \* _pipe_stderr of that channel: state ("none": not created,
                  \* "read": in readline, "dispatch": in on_log, "eof": ended),
                  \* n: lines read, line: the bytes of the line read last,
                  \* i: index of the iteration of cb over the list,
                  \* snap: the callbacks subscribed when cb was called,
                  \* gone: the callbacks unsubscribed since cb was called
  received,       \* per callback: the numbers of the lines it was called with
  log_exists,     \* the log file of the channel exists
  log_file,       \* its content: bytes, "nl" a newline, "x" any other byte
  metadata_providers,  \* state.metadata_providers: name and api_key_or_token of each
  bio_cache,      \* the cache entry of the artist: "absent", "null" (an entry
                  \* whose bio is None) or the bio
  bio_call,       \* the call of fetch_artist_bio: pc ("idle", "fetch", "done"),
                  \* artist (FALSE: empty or the placeholder), todo: the sorted
                  \* providers from the one asked on, result,
                  \* cache0: the cache entry at the call, contacted: the names
                  \* of the providers asked, outs: what they returned
  calls,          \* the parts of the program that the supervisor only calls, one
                  \* field each with the arguments, the state and the results:
                  \*   cache: the metadata cache (metadata_cache.py), a and b two
                  \*     artist names, index the content of index.json, images
                  \*     the keys with an image file, got the result of the last
                  \*     get_cached, set the arguments of the last set_cached
                  \*   image: the call of fetch_artist_image_url (metadata.py); it
                  \*     reads metadata_providers and uses the cache of cache
                  \*   wrap: _wrap_text (now_playing.py), text and budget the
                  \*     arguments, out the result, lines the steps of its loop
                  \*   sync: now_playing_loop with a change callback
                  \*     (now_playing.py), prev its prev_title and prev_artist,
                  \*     songs what write_now_playing_files returned cycle by
                  \*     cycle, invoked whether the callback was called in
                  \*     that cycle, written the last call of
                  \*     write_now_playing_files
                  \*   px: to_px_x and to_px_y of _start_single_channel
                  \*     (services.py), v the value of a placement, x and y
                  \*     the results
                  \*   build: the command of _start_single_channel (services.py),
                  \*     job what it is built from, cmd the command
                  \*   lookup: fetch_artist_bio on the cache of cache, n the name
                  \*     (1: cache.a, 2: cache.b) it was called with; bio_call
                  \*     is its call
                  \*   typeonly: _is_type_only_bio (metadata.py), s the string,
                  \*     out what it returned ("none": not called), ret what
                  \*     _fetch_musicbrainz returned
  last            \* the operation that returned in the last step: op, chan, result,
                  \* immediate (it returned without suspending), after_stop (it
                  \* was a start called in "stopped"); op = "cycle_failed" and
                  \* arg = n when the last step was a failed cycle of loop n;
                  \* op names the step and arg is the callback, or the size of
                  \* the file before the step, when the last step was a step of
                  \* the log capture

cfgVars == <<known, enabled, hasProfile, named>>
supVars == <<running, now_playing_stop, now_playing_tasks, watch_tasks, stop_requested,
             last_auto_restart_time, inst>>
callVars == <<op, chan, pc, ref, todo, hist, last>>
logVars == <<log_listeners, pump, received, log_exists, log_file>>
metaVars == <<metadata_providers, bio_cache, bio_call>>
vars == <<known, enabled, hasProfile, named, running, now_playing_stop, now_playing_tasks,
          watch_tasks, stop_requested, last_auto_restart_time, inst, op, chan, pc,
          ref, todo, hist, log_listeners, pump, received, log_exists, log_file,
          metadata_providers, bio_cache, bio_call, calls, last>>

NoChannels == [c \in Channels |-> 0]

\* an index not in use
\*   proc:    the encoder process, "unborn", "alive" or "exited"
\*   chan:    the channel it was spawned for
\*   intent:  the channel's stop-intent was set when the process exited
\*            (kept while the watch task has not yet decided about a restart)
\*   quiet:   the process exited without stop-intent; since its exit no
\*            operation was called or in flight and the channel stayed enabled
\*            (kept while the watch task has not yet decided about a restart)
\*   ev:      the asyncio.Event of the metadata loop is set
\*   np:      the metadata loop task, "none", "cycle", "idle", "cancelling", "done"
\*   watch:   the watch task, "none", "wait", "await_np", "sleep", "spawn", "done"
\*   np_task: the task the watch task awaits in "await_np"
\*   delay:   the seconds left of the watch task's asyncio.sleep
Blank ==
  [proc |-> "unborn", chan |-> 0, intent |-> FALSE, quiet |-> FALSE, ev |-> FALSE,
   np |-> "none",
   watch |-> "none", np_task |-> 0, delay |-> 0]

NoReturn ==
  [op |-> "none", chan |-> 0, res |-> "none", immediate |-> FALSE, after_stop |-> FALSE,
   arg |-> 0]

NoPump == [state |-> "none", n |-> 0, line |-> <<>>, i |-> 0, snap |-> {}, gone |-> {}]

\* no pump is created, nothing is subscribed, no log file exists
LogInit ==
  /\ log_listeners = <<>>
  /\ pump = NoPump
  /\ received = [f \in Callbacks |-> <<>>]
  /\ log_exists = FALSE
  /\ log_file = <<>>

NoBioCall ==
  [pc |-> "idle", artist |-> TRUE, todo |-> <<>>, result |-> "none", cache0 |-> "absent",
   contacted |-> <<>>, outs |-> <<>>]

\* no provider is configured, the cache is empty, no bio is asked for
MetaInit ==
  /\ metadata_providers = <<>>
  /\ bio_cache = "absent"
  /\ bio_call = NoBioCall

\* get_cached returned None
NotCached == [found |-> FALSE, bio |-> "null", image_url |-> "", image_path |-> FALSE]

\* no index.json, no image file
NoCache == [a |-> <<>>, b |-> <<>>, index |-> <<>>, images |-> {}, got |-> NotCached,
            set |-> [n |-> 0, bio |-> "null"]]

NoTypeOnly == [s |-> <<>>, out |-> "none", ret |-> <<>>]

\* no call of fetch_artist_image_url: pc is "idle", "fetch" (a request to
\* a provider is awaited) or "done"; stage is the part of the function the
\* request belongs to, todo the providers it has not looked at; contacted the
\* providers asked and outs their answers; cache0 what get_cached returned
NoImageCall ==
  [pc |-> "idle", artist |-> FALSE, stage |-> "none", todo |-> <<>>, contacted |-> <<>>,
   outs |-> <<>>, result |-> "", cache0 |-> NotCached]

NoWrap == [text |-> <<>>, budget |-> 0, called |-> FALSE, out |-> <<>>, lines |-> <<>>]

\* the placeholder U+2014
Dash == <<"dash">>

\* write_now_playing_files was not called
NotWritten ==
  [station |-> FALSE, data |-> [kind |-> "failed", title |-> <<>>, artist |-> <<>>],
   title |-> <<>>, artist |-> <<>>, resolver |-> FALSE,
   song_txt |-> <<>>, artist_txt |-> <<>>, bio_txt |-> <<>>]

\* now_playing_loop before its first cycle: pc is "top" (the test of the
\* while), "callback" (on_song_change is awaited), "wait" (the wait for the
\* stop event or the interval) or "ended"
NoSync ==
  [configured |-> FALSE, pc |-> "top", prev |-> <<>>, cur |-> <<>>, songs |-> <<>>,
   invoked |-> <<>>, cycles |-> 0, stop |-> FALSE, written |-> NotWritten]

NoPx == [placements_from_editor |-> FALSE, v |-> 0, called |-> FALSE, x |-> 0, y |-> 0]

\* no command: inputs are the -i arguments in their order, vf_arg the
\* filters of -vf, graph the chains of -filter_complex, video_map and
\* audio_map the two -map arguments
NoCommand ==
  [inputs |-> <<>>, vf_arg |-> <<>>, graph |-> <<>>,
   video_map |-> [kind |-> "none", label |-> "", index |-> 0],
   audio_map |-> [kind |-> "none", label |-> "", index |-> 0],
   song_txt |-> <<>>, artist_txt |-> <<>>, bio_txt |-> <<>>]

\* nothing to build: placements are the overlay placements in use, linked
\* says that the channel's station resolves, bg that the background file
\* exists, art that art.png exists after write_now_playing_files, data and
\* bio are the answers of the station and of the resolver
NoBuild ==
  [job |-> [placements_from_editor |-> FALSE, placements |-> <<>>, linked |-> FALSE,
            bg |-> FALSE, art |-> FALSE,
            data |-> [kind |-> "failed", title |-> <<>>, artist |-> <<>>], bio |-> <<>>],
   built |-> FALSE, cmd |-> NoCommand]

\* no lookup of a bio through the cache: n is the name it was called with
NoLookup == [n |-> 0]

NoCalls == [cache |-> NoCache, typeonly |-> NoTypeOnly, image |-> NoImageCall,
            wrap |-> NoWrap, sync |-> NoSync, px |-> NoPx, build |-> NoBuild,
            lookup |-> NoLookup]

\* nothing is called
CallsInit == calls = NoCalls

\* the supervisor after the import of services.py
SupInit ==
  /\ known = Channels
  /\ enabled = Channels
  /\ hasProfile = TRUE
  /\ named = Channels
  /\ running = NoChannels
  /\ now_playing_stop = NoChannels
  /\ now_playing_tasks = NoChannels
  /\ watch_tasks = NoChannels
  /\ stop_requested = {}
  /\ last_auto_restart_time = [c \in Channels |-> -1]
  /\ inst = [p \in Procs |-> Blank]
  /\ op = [t \in Callers |-> "none"]
  /\ chan = [t \in Callers |-> 0]
  /\ pc = [t \in Callers |-> "idle"]
  /\ ref = [t \in Callers |-> 0]
  /\ todo = [t \in Callers |-> <<>>]
  /\ hist = [c \in Channels |-> "none"]
  /\ last = NoReturn

Init == SupInit /\ LogInit /\ MetaInit /\ CallsInit

\* ---- the supervisor's state as a value ----

\* A step of a coroutine is a function from the state it finds to the state
\* it leaves.  The last seven fields are the stepping caller's own; deleted
\* holds the ids that the step removes from the persisted state.
CurS ==
  [running |-> running, nps |-> now_playing_stop, npt |-> now_playing_tasks,
   wt |-> watch_tasks, sr |-> stop_requested, last |-> last_auto_restart_time,
   inst |-> inst,
   op |-> "none", chan |-> 0, pc |-> "idle", ref |-> 0, todo |-> <<>>, res |-> "none",
   deleted |-> {}]

Cur(t) ==
  [CurS EXCEPT !.op = op[t], !.chan = chan[t], !.pc = pc[t], !.ref = ref[t],
               !.todo = todo[t]]

\* what the callers other than t hold on to: the process, metadata loop task
\* or watch task they await, the list stop_all_channels iterates
Held(t) ==
  UNION {({ref[u]} \cup IF pc[u] \in {"xa_term", "xa_np"}
                        THEN {todo[u][i] : i \in DOMAIN todo[u]} ELSE {}) :
         u \in Callers \ {t}}

\* the process has exited, its tasks are done, no table and no task refers
\* to the entry
Finished(s, keep, p) ==
  /\ s.inst[p].proc = "exited" /\ s.inst[p].watch = "done" /\ s.inst[p].np = "done"
  /\ p \notin keep
  /\ \A c \in Channels : p \notin {s.running[c], s.nps[c], s.npt[c], s.wt[c]}
  /\ \A q \in Procs : s.inst[q].np_task # p

Release(s, keep) ==
  [s EXCEPT !.inst = [p \in Procs |-> IF Finished(s, keep, p) THEN Blank ELSE @[p]]]

\* the variables take the values of s0, after Release (s0 is evaluated once)
ApplyS(s0, keep) ==
  \E s1 \in {s0} : \E s \in {Release(s1, keep)} :
  /\ running' = s.running
  /\ now_playing_stop' = s.nps
  /\ now_playing_tasks' = s.npt
  /\ watch_tasks' = s.wt
  /\ stop_requested' = s.sr
  /\ last_auto_restart_time' = s.last
  /\ inst' = s.inst

\* a step of the encoder, of a metadata loop or of a watch task: no operation
\* is called, none returns
Background ==
  /\ last' = NoReturn
  /\ UNCHANGED <<cfgVars, op, chan, pc, ref, todo, hist, logVars, metaVars, calls>>

\* ---- helpers ----

\* is_running that asks whether the registered process is alive
is_running_alive(c) == running[c] # 0 /\ inst[running[c]].proc = "alive"

\* channel_id in _running
is_running(c) == running[c] # 0

\* _get_profile that knows no fallback
_get_profile_strict(c) == IF c \in named THEN "named" ELSE "none"

\* _get_profile(state, channel.ffmpeg_profile_id): the profile of that name,
\* else the first profile of the list, else None
_get_profile(c) ==
  IF c \in named THEN "named" ELSE IF hasProfile THEN "first" ELSE "none"

\* dict.pop(key, None)
Pop(d, c) == [d EXCEPT ![c] = 0]

\* the index of the next successful spawn (0: none free in the model)
Unborn(s) == {p \in Procs : s.inst[p].proc = "unborn"}
NextProc(s) ==
  IF Unborn(s) = {} THEN 0 ELSE CHOOSE p \in Unborn(s) : \A q \in Unborn(s) : p <= q

\* the encoders of channel c that are alive
Alive(c) == {p \in Procs : inst[p].proc = "alive" /\ inst[p].chan = c}

\* _stop_now_playing: ev = _now_playing_stop.get(channel_id); if ev: ev.set()
_stop_now_playing(s, c) ==
  IF s.nps[c] # 0 THEN [s EXCEPT !.inst[s.nps[c]].ev = TRUE] ELSE s

\* task.cancel() of a watch task.  Waiting in proc.wait(), asyncio.sleep or
\* _start_single_channel, the CancelledError ends the task ("except
\* CancelledError: raise"); inside "try: await np_task / except
\* CancelledError: pass" it is caught and the task goes on.
CancelWatch(s, w) ==
  IF s.inst[w].watch \in {"wait", "sleep", "spawn"}
  THEN [s EXCEPT !.inst[w].watch = "done", !.inst[w].delay = 0, !.inst[w].intent = FALSE,
                 !.inst[w].quiet = FALSE]
  ELSE s

\* ---- encoder process ----

\* the encoder exits: a crash, the end of its input, its reaction to SIGTERM
ProcExit(p) ==
  /\ inst[p].proc = "alive"
  /\ ApplyS([CurS EXCEPT !.inst[p].proc = "exited",
                         !.inst[p].intent = inst[p].chan \in stop_requested
                                            /\ inst[p].watch = "wait",
                         !.inst[p].quiet = /\ inst[p].chan \notin stop_requested
                                           /\ inst[p].watch = "wait"
                                           /\ inst[p].chan \in enabled
                                           /\ \A t \in Callers : pc[t] = "idle"],
            Held(0))
  /\ Background

\* ---- metadata loop (now_playing_loop) ----

\* write_now_playing_files returned; wait_for(stop.wait(), interval) follows
\* and returns at once when the event is set, which ends the loop
now_playing_loop_cycle_end(n) ==
  /\ inst[n].np = "cycle"
  /\ ApplyS([CurS EXCEPT !.inst[n].np = IF inst[n].ev THEN "done" ELSE "idle"], Held(0))
  /\ Background

\* a failed cycle that ends the loop
CycleFailed_ends(s, n) == [s EXCEPT !.inst[n].np = "done"]

\* load_state, write_now_playing_files or on_song_change raised an
\* Exception: "except Exception: pass", then wait_for(stop.wait(), interval)
\* as after a cycle without failure
CycleFailed(s, n) ==
  [s EXCEPT !.inst[n].np = IF s.inst[n].ev THEN "done" ELSE "idle"]

\* last.op = "cycle_failed" and last.arg = n mark the step
now_playing_loop_cycle_failed(n) ==
  /\ inst[n].np = "cycle"
  /\ ApplyS(CycleFailed(CurS, n), Held(0))
  /\ last' = [NoReturn EXCEPT !.op = "cycle_failed", !.arg = n]
  /\ UNCHANGED <<cfgVars, op, chan, pc, ref, todo, hist, logVars, metaVars, calls>>

\* the wait between two cycles ends: by the event (the loop ends) or by the
\* timeout (the next cycle begins)
now_playing_loop_wait_end(n) ==
  /\ inst[n].np = "idle"
  /\ ApplyS([CurS EXCEPT !.inst[n].np = IF inst[n].ev THEN "done" ELSE "cycle"], Held(0))
  /\ Background

\* the CancelledError of np_task.cancel() is raised in the loop: "except
\* Exception" does not catch it and the task ends
now_playing_loop_cancelled(n) ==
  /\ inst[n].np = "cancelling"
  /\ ApplyS([CurS EXCEPT !.inst[n].np = "done"], Held(0))
  /\ Background

\* ---- _start_single_channel ----

\* after "proc = await start_channel_ffmpeg(...)" with a process: q lives and
\* is registered for c with a fresh event, a metadata loop task, a watch task
Register(s, c, q) ==
  [s EXCEPT !.running[c] = q, !.nps[c] = q, !.npt[c] = q, !.wt[c] = q,
            !.inst[q] = [Blank EXCEPT !.proc = "alive", !.chan = c, !.np = "cycle",
                                      !.watch = "wait"]]

\* ---- watch task (_watch_ffmpeg_exit) ----

\* the base delay whatever the last auto-restart
RestartDelay_base(s, c) == BaseDelay

\* delay = 15; 60 when the last auto-restart is less than 120 s ago
RestartDelay(s, c) ==
  IF s.last[c] # -1 /\ s.last[c] < CooldownWindow THEN EscalatedDelay ELSE BaseDelay

\* from "_now_playing_stop.pop" to "await asyncio.sleep(delay)"
WatchTail(s, p) ==
  LET c == s.inst[p].chan
      s1 == [s EXCEPT !.nps = Pop(@, c), !.wt = Pop(@, c), !.inst[p].np_task = 0]
  IN IF c \in s.sr
     THEN [s1 EXCEPT !.sr = @ \ {c}, !.inst[p].watch = "done", !.inst[p].intent = FALSE,
                     !.inst[p].quiet = FALSE]
     ELSE [s1 EXCEPT !.inst[p].watch = "sleep", !.inst[p].delay = RestartDelay(s, c)]

\* proc.wait() returned: unregister the channel, stop its metadata loop
WatchExit(s, p) ==
  LET c == s.inst[p].chan
      np_task == s.npt[c]
      s1 == [_stop_now_playing([s EXCEPT !.running = Pop(@, c)], c) EXCEPT !.npt = Pop(@, c)]
  IN IF np_task # 0 /\ s.inst[np_task].np # "done"
     THEN [s1 EXCEPT !.inst[np_task].np = "cancelling", !.inst[p].watch = "await_np",
                     !.inst[p].np_task = np_task]
     ELSE WatchTail(s1, p)

\* the checks before the auto-restart without the look into the state
WatchWake_unconfigured(s, p) ==
  LET c == s.inst[p].chan
      s1 == [s EXCEPT !.inst[p].delay = 0, !.inst[p].intent = FALSE,
                      !.inst[p].quiet = FALSE]
  IN IF s.running[c] # 0
     THEN [s1 EXCEPT !.inst[p].watch = "done"]
     ELSE [s1 EXCEPT !.last[c] = 0,
                     !.inst[p].watch = IF _get_profile(c) # "none" THEN "spawn" ELSE "done"]

\* the sleep is over: the checks before the auto-restart, then
\* _start_single_channel up to the point where it suspends
WatchWake(s, p) ==
  LET c == s.inst[p].chan
      s1 == [s EXCEPT !.inst[p].delay = 0, !.inst[p].intent = FALSE,
                      !.inst[p].quiet = FALSE]
  IN IF s.running[c] # 0 \/ c \notin known \/ c \notin enabled
     THEN [s1 EXCEPT !.inst[p].watch = "done"]
     ELSE [s1 EXCEPT !.last[c] = 0,
                     !.inst[p].watch = IF _get_profile(c) # "none" THEN "spawn" ELSE "done"]

watch_exit(p) ==
  /\ inst[p].watch = "wait"
  /\ inst[p].proc = "exited"
  /\ ApplyS(WatchExit(CurS, p), Held(0))
  /\ Background

\* "await np_task" returned (its CancelledError is passed over)
watch_np_done(p) ==
  /\ inst[p].watch = "await_np"
  /\ inst[inst[p].np_task].np = "done"
  /\ ApplyS(WatchTail(CurS, p), Held(0))
  /\ Background

watch_wake(p) ==
  /\ inst[p].watch = "sleep"
  /\ inst[p].delay = 0
  /\ ApplyS(WatchWake(CurS, p), Held(0))
  /\ Background

\* the spawn of the auto-restart succeeded
watch_spawn_ok(p) ==
  /\ inst[p].watch = "spawn"
  /\ LET s == Release([CurS EXCEPT !.inst[p].watch = "done"], Held(0)) IN
       /\ NextProc(s) # 0
       /\ ApplyS(Register(s, inst[p].chan, NextProc(s)), Held(0))
  /\ Background

\* a failed spawn of the auto-restart after which the watch task waits the
\* base delay and tries again
watch_spawn_failed_retries(p) ==
  /\ inst[p].watch = "spawn"
  /\ ApplyS([CurS EXCEPT !.inst[p].watch = "sleep", !.inst[p].delay = BaseDelay], Held(0))
  /\ Background

\* the spawn of the auto-restart failed (start_channel_ffmpeg returned None)
watch_spawn_failed(p) ==
  /\ inst[p].watch = "spawn"
  /\ ApplyS([CurS EXCEPT !.inst[p].watch = "done"], Held(0))
  /\ Background

\* ---- time ----

Min(a, b) == IF a < b THEN a ELSE b
Max(a, b) == IF a > b THEN a ELSE b

\* d seconds pass
TimePasses(d) ==
  /\ \/ \E p \in Procs : inst[p].watch = "sleep" /\ inst[p].delay > 0
     \/ \E c \in Channels : last_auto_restart_time[c] \in 0..(CooldownWindow - 1)
  /\ inst' = [p \in Procs |-> [inst[p] EXCEPT !.delay = Max(0, @ - d)]]
  /\ last_auto_restart_time' = [c \in Channels |->
                IF last_auto_restart_time[c] = -1 THEN -1
                ELSE Min(CooldownWindow, last_auto_restart_time[c] + d)]
  /\ hist' = [c \in Channels |-> IF hist[c] \in {"stopped", "stopped_idle"}
                                 THEN "stopped_long" ELSE hist[c]]
  /\ last' = NoReturn
  /\ UNCHANGED <<cfgVars, running, now_playing_stop, now_playing_tasks, watch_tasks,
                 stop_requested, op, chan, pc, ref, todo, logVars, metaVars, calls>>

\* time passes in steps of the base delay
Tick == TimePasses(BaseDelay)

\* time passes in steps of the cooldown window: every sleep and every
\* cooldown that has begun is over
Elapse == TimePasses(CooldownWindow)

\* ---- manual operations ----

Active(t) == pc[t] # "idle"
OthersActive(t) == \E u \in Callers \ {t} : Active(u)

\* the task that serves the next call
Free(t) == pc[t] = "idle" /\ \A u \in Callers : u < t => pc[u] # "idle"

\* the sleeps of the watch tasks of the channels cs are no longer quiet
Disturbed(s, cs) ==
  [s EXCEPT !.inst = [p \in Procs |-> IF @[p].chan \in cs THEN [@[p] EXCEPT !.quiet = FALSE]
                                                          ELSE @[p]]]

\* hist after the call of s.op for s.chan by t
Called(t, s) ==
  IF s.op = "startAll" THEN [c \in Channels |-> "none"]
  ELSE IF s.op = "restart" THEN [hist EXCEPT ![s.chan] = "none"]
  ELSE IF s.op = "start"
  THEN [hist EXCEPT ![s.chan] = IF @ = "stopped" /\ ~OthersActive(t)
                                 THEN "start_after_stop" ELSE "none"]
  ELSE [c \in Channels |-> IF hist[c] = "start_after_stop" THEN "none" ELSE hist[c]]

\* the step of caller t leaves the state s (s0, evaluated once); called: the step is the call
\* itself.  A step that ends with pc = "ret" has returned res to the caller.
Assign(t, s0, called) ==
  \E s \in {s0} :
  LET h == IF called THEN Called(t, s) ELSE hist
      returned == s.pc = "ret"
  IN
  /\ ApplyS(IF called THEN Disturbed(s, Channels) ELSE s,
            Held(t) \cup (IF returned THEN {} ELSE
               {s.ref} \cup IF s.pc \in {"xa_term", "xa_np"}
                            THEN {s.todo[i] : i \in DOMAIN s.todo} ELSE {}))
  /\ op' = [op EXCEPT ![t] = IF returned THEN "none" ELSE s.op]
  /\ chan' = [chan EXCEPT ![t] = IF returned THEN 0 ELSE s.chan]
  /\ pc' = [pc EXCEPT ![t] = IF returned THEN "idle" ELSE s.pc]
  /\ ref' = [ref EXCEPT ![t] = IF returned THEN 0 ELSE s.ref]
  /\ todo' = [todo EXCEPT ![t] = IF returned THEN <<>> ELSE s.todo]
  /\ last' = IF returned
             THEN [op |-> s.op, chan |-> s.chan, res |-> s.res, immediate |-> called,
                   after_stop |-> s.op = "start" /\ h[s.chan] = "start_after_stop",
                   arg |-> 0]
             ELSE NoReturn
  /\ hist' = IF ~returned THEN h
             ELSE IF s.op = "stop" /\ ~OthersActive(t)
             THEN [h EXCEPT ![s.chan] = IF called THEN "stopped_idle" ELSE "stopped"]
             ELSE IF s.op = "start" /\ h[s.chan] = "start_after_stop"
             THEN [h EXCEPT ![s.chan] = "none"]
             ELSE IF s.op = "stopAll" /\ ~OthersActive(t)
             THEN [c \in Channels |-> IF s.running[c] = 0 THEN "all_stopped" ELSE h[c]]
             ELSE h
  /\ known' = known \ s.deleted
  /\ enabled' = enabled \ s.deleted
  /\ named' = named \ s.deleted
  /\ UNCHANGED <<hasProfile, logVars, metaVars, calls>>

\* start_channel after the is_running check, restart_channel after
\* stop_channel: load the state, find the channel, then _start_single_channel
\* up to the point where it suspends (write_now_playing_files, the spawn)
StartChecks(s) ==
  IF s.chan \notin known THEN [s EXCEPT !.pc = "ret", !.res = "notfound"]
  ELSE IF s.chan \notin enabled THEN [s EXCEPT !.pc = "ret", !.res = "disabled"]
  ELSE IF _get_profile(s.chan) = "none" THEN [s EXCEPT !.pc = "ret", !.res = "noprofile"]
  ELSE [s EXCEPT !.pc = "spawn"]

\* start_channel without its is_running check
StartEnter_unchecked(s) == StartChecks(s)

\* start_channel up to its first suspension
StartEnter(s) ==
  IF is_running(s.chan) THEN [s EXCEPT !.pc = "ret", !.res = "ok"]
  ELSE StartChecks(s)

\* stop_channel has returned to its caller
AfterStop(s) ==
  IF s.op = "restart" THEN StartChecks(s)
  ELSE IF s.op = "delete" THEN [s EXCEPT !.pc = "ret", !.res = "ok", !.deleted = {s.chan}]
  ELSE [s EXCEPT !.pc = "ret", !.res = "ok"]

\* stop_channel: "watch = _watch_tasks.pop(...)" to the return
StopWatch(s) ==
  LET watch == s.wt[s.chan]
      s1 == [s EXCEPT !.wt = Pop(@, s.chan)]
  IN IF watch # 0 /\ s.inst[watch].watch # "done"
     THEN [CancelWatch(s1, watch) EXCEPT !.pc = "st_watch", !.ref = watch]
     ELSE AfterStop(s1)

\* stop_channel from "_now_playing_stop.pop" (line 159) on
StopTailB(s) ==
  StopWatch([s EXCEPT !.nps = Pop(@, s.chan), !.sr = @ \ {s.chan}])

\* stop_channel from "_running.pop" (line 152) on
StopTailA(s) ==
  LET c == s.chan
      task == s.npt[c]
      s1 == [s EXCEPT !.running = Pop(@, c), !.npt = Pop(@, c)]
  IN IF task # 0 /\ s.inst[task].np # "done"
     THEN [s1 EXCEPT !.pc = "st_np", !.ref = task]
     ELSE StopTailB(s1)

\* stop_channel up to its first suspension.  terminate() and kill() of a
\* process whose exit the loop has seen raise ProcessLookupError, which is
\* passed over.
StopEnter(s) ==
  LET c == s.chan
      proc == s.running[c]
      s0 == _stop_now_playing([s EXCEPT !.sr = @ \cup {c}], c)
  IN IF proc = 0
     THEN StopWatch([s0 EXCEPT !.sr = @ \ {c}, !.nps = Pop(@, c), !.npt = Pop(@, c)])
     ELSE IF s.inst[proc].proc # "alive" THEN StopTailA(s0)
     ELSE [s0 EXCEPT !.pc = "st_term", !.ref = proc]

\* proc.kill() after the timeout of wait_for(proc.wait())
Kill(s, proc) ==
  [s EXCEPT !.inst[proc].proc = "exited",
            !.inst[proc].intent = s.inst[proc].chan \in s.sr /\ s.inst[proc].watch = "wait"]

\* the spawn of a manual operation succeeded: register, then return or go on
\* with the next channel of start_all_channels
SpawnOk(s, q) ==
  LET s1 == Register(s, s.chan, q) IN
  IF s.todo = <<>> THEN [s1 EXCEPT !.pc = "ret", !.res = "ok"]
  ELSE [s1 EXCEPT !.chan = Head(s.todo), !.todo = Tail(s.todo)]

\* a failed spawn reported as a success
SpawnFailed_ok(s) == [s EXCEPT !.pc = "ret", !.res = "ok"]

\* start_channel_ffmpeg returned None
SpawnFailed(s) ==
  IF s.op = "startAll"
  THEN IF s.todo = <<>> THEN [s EXCEPT !.pc = "ret", !.res = "ok"]
       ELSE [s EXCEPT !.chan = Head(s.todo), !.todo = Tail(s.todo)]
  ELSE [s EXCEPT !.pc = "ret", !.res = "failed"]

start_channel(t, c) ==
  /\ Free(t)
  /\ Assign(t, StartEnter([Cur(t) EXCEPT !.op = "start", !.chan = c]), TRUE)

stop_channel_api(t, c) ==
  /\ Free(t)
  /\ LET s == [Cur(t) EXCEPT !.op = "stop", !.chan = c]
     IN Assign(t, IF ~is_running(c) THEN [s EXCEPT !.pc = "ret", !.res = "ok"]
                  ELSE StopEnter(s), TRUE)

restart_channel(t, c) ==
  /\ Free(t)
  /\ Assign(t, StopEnter([Cur(t) EXCEPT !.op = "restart", !.chan = c]), TRUE)

spawn_ok(t) ==
  /\ pc[t] = "spawn"
  /\ NextProc(CurS) # 0
  /\ Assign(t, SpawnOk(Cur(t), NextProc(CurS)), FALSE)

spawn_failed(t) ==
  /\ pc[t] = "spawn"
  /\ Assign(t, SpawnFailed(Cur(t)), FALSE)

\* wait_for(proc.wait(), 5.0) returned: the process has exited
stop_channel_exited(t) ==
  /\ pc[t] = "st_term"
  /\ inst[ref[t]].proc = "exited"
  /\ Assign(t, StopTailA(Cur(t)), FALSE)

\* wait_for(proc.wait(), 5.0) timed out: kill
stop_channel_kill(t) ==
  /\ pc[t] = "st_term"
  /\ inst[ref[t]].proc = "alive"
  /\ Assign(t, StopTailA(Kill(Cur(t), ref[t])), FALSE)

\* wait_for(shield(task), 2.0) returned: the metadata loop has ended
stop_channel_np_done(t) ==
  /\ pc[t] = "st_np"
  /\ inst[ref[t]].np = "done"
  /\ Assign(t, StopTailB(Cur(t)), FALSE)

\* the wait for the metadata loop without its timeout
stop_channel_np_unbounded(t) ==
  /\ pc[t] = "st_np"
  /\ inst[ref[t]].np = "done"
  /\ Assign(t, StopTailB(Cur(t)), FALSE)

\* wait_for(shield(task), 2.0) timed out: the loop is left running
stop_channel_np_timeout(t) ==
  /\ pc[t] = "st_np"
  /\ inst[ref[t]].np # "done"
  /\ Assign(t, StopTailB(Cur(t)), FALSE)

\* "await watch" returned
stop_channel_watch_done(t) ==
  /\ pc[t] = "st_watch"
  /\ inst[ref[t]].watch = "done"
  /\ Assign(t, AfterStop(Cur(t)), FALSE)

\* state.channels in order, the enabled ones
EnabledList ==
  SelectSeq([i \in 1..NumChannels |-> i], LAMBDA c : c \in known /\ c \in enabled)

\* start_all_channels up to the first suspension of _start_single_channel
StartAllEnter(s) ==
  LET s1 == [s EXCEPT !.last = [c \in Channels |-> -1]] IN
  IF EnabledList = <<>> THEN [s1 EXCEPT !.pc = "ret", !.res = "ok"]
  ELSE IF _get_profile(Head(EnabledList)) = "none"
  THEN [s1 EXCEPT !.pc = "ret", !.res = "noprofile"]
  ELSE [s1 EXCEPT !.pc = "spawn", !.chan = Head(EnabledList), !.todo = Tail(EnabledList)]

start_all_channels(t) ==
  /\ Free(t)
  /\ Assign(t, StartAllEnter([Cur(t) EXCEPT !.op = "startAll"]), TRUE)

\* the metadata loop tasks of the table that are not done
TasksNotDone(s) ==
  SelectSeq([i \in 1..NumChannels |-> s.npt[i]], LAMBDA n : n # 0 /\ s.inst[n].np # "done")

\* stop_all_channels: the four clear() calls and the return
StopAllClear(s) ==
  [s EXCEPT !.npt = NoChannels, !.nps = NoChannels, !.wt = NoChannels, !.sr = {},
            !.todo = <<>>, !.pc = "ret", !.res = "ok"]

\* stop_all_channels after the loop over the processes
StopAllAfter(s) ==
  IF TasksNotDone(s) # <<>>
  THEN [s EXCEPT !.pc = "xa_np", !.todo = TasksNotDone(s)]
  ELSE StopAllClear(s)

\* the loop over list(_running.items()): terminate, wait, pop
RECURSIVE StopAllLoop(_)
StopAllLoop(s) ==
  IF s.todo = <<>> THEN StopAllAfter(s)
  ELSE LET proc == Head(s.todo) IN
       IF s.inst[proc].proc = "alive"
       THEN [s EXCEPT !.pc = "xa_term", !.ref = proc]
       ELSE StopAllLoop([s EXCEPT !.running = Pop(@, s.inst[proc].chan), !.todo = Tail(@)])

\* stop_all_channels up to its first suspension
StopAllEnter(s) ==
  LET keys == {c \in Channels : s.running[c] # 0}
      evs == {s.nps[c] : c \in keys}
  IN StopAllLoop([s EXCEPT
       !.sr = @ \cup keys,
       !.inst = [n \in Procs |-> IF n \in evs THEN [@[n] EXCEPT !.ev = TRUE] ELSE @[n]],
       !.todo = SelectSeq([i \in 1..NumChannels |-> s.running[i]], LAMBDA q : q # 0)])

stop_all_channels(t) ==
  /\ Free(t)
  /\ Assign(t, StopAllEnter([Cur(t) EXCEPT !.op = "stopAll"]), TRUE)

\* wait_for(proc.wait(), 5.0) of stop_all_channels returned
stop_all_exited(t) ==
  /\ pc[t] = "xa_term"
  /\ inst[ref[t]].proc = "exited"
  /\ Assign(t, StopAllLoop([Cur(t) EXCEPT !.running = Pop(@, inst[ref[t]].chan),
                                           !.todo = Tail(@)]), FALSE)

\* ... timed out: kill
stop_all_kill(t) ==
  /\ pc[t] = "xa_term"
  /\ inst[ref[t]].proc = "alive"
  /\ Assign(t, StopAllLoop([Kill(Cur(t), ref[t]) EXCEPT
                               !.running = Pop(@, inst[ref[t]].chan),
                               !.todo = Tail(@)]), FALSE)

\* asyncio.wait(tasks, timeout=3.0) returned, with all tasks done or not
stop_all_np_end(t) ==
  /\ pc[t] = "xa_np"
  /\ Assign(t, StopAllClear(Cur(t)), FALSE)

\* ---- configuration (put_state, update_channel) ----

set_enabled(c) ==
  /\ c \in known
  /\ enabled' = IF c \in enabled THEN enabled \ {c} ELSE enabled \cup {c}
  /\ inst' = Disturbed(CurS, {c}).inst
  /\ last' = NoReturn
  /\ UNCHANGED <<known, hasProfile, named, running, now_playing_stop, now_playing_tasks,
                 watch_tasks, stop_requested, last_auto_restart_time,
                 op, chan, pc, ref, todo, hist, logVars, metaVars, calls>>

\* put_state with the list of profiles emptied, or filled again with the
\* profiles the channels name
set_profiles ==
  /\ hasProfile' = ~hasProfile
  /\ named' = IF hasProfile THEN {} ELSE known
  /\ last' = NoReturn
  /\ UNCHANGED <<known, enabled, supVars, op, chan, pc, ref, todo, hist, logVars, metaVars, calls>>

\* update_channel or put_state: ffmpeg_profile_id of c is changed to a name
\* that no profile of the list has, or back to the name of one
set_profile_id(c) ==
  /\ c \in known
  /\ hasProfile
  /\ named' = IF c \in named THEN named \ {c} ELSE named \cup {c}
  /\ last' = NoReturn
  /\ UNCHANGED <<known, enabled, hasProfile, supVars, op, chan, pc, ref, todo, hist,
                 logVars, metaVars, calls>>

\* put_state with a channel that the old state does not have: removed_ids
\* is empty, the state is saved
put_state_add(c) ==
  /\ c \notin known
  /\ known' = known \cup {c}
  /\ \E e \in BOOLEAN : enabled' = IF e THEN enabled \cup {c} ELSE enabled
  /\ \E n \in {FALSE, hasProfile} : named' = IF n THEN named \cup {c} ELSE named
  /\ last' = NoReturn
  /\ UNCHANGED <<hasProfile, supVars, op, chan, pc, ref, todo, hist, logVars, metaVars, calls>>

\* put_state without channel c of the old state: stop_channel(c), then
\* save_admin_state
put_state_delete(t, c) ==
  /\ Free(t)
  /\ c \in known
  /\ Assign(t, StopEnter([Cur(t) EXCEPT !.op = "delete", !.chan = c]), TRUE)

\* ---- log capture (ffmpeg_runner.py, make_cb, subscribe_logs) ----

\* a step of the log capture, noted in last with its argument f; the file
\* system calls succeed
LogStep(name, f) ==
  /\ last' = [NoReturn EXCEPT !.op = name, !.arg = f]
  /\ UNCHANGED <<cfgVars, supVars, op, chan, pc, ref, todo, hist, metaVars, calls>>

\* a line of len bytes: the newline is its last byte
Line(len) == [k \in 1..len |-> IF k = len THEN "nl" ELSE "x"]

\* seq[from..], Python's slice
Drop(seq, from) == SubSeq(seq, from, Len(seq))

\* bytes.find(b"\n"): the index of the first newline, counted from 1
\* (0: none, Python's -1)
Find(seq) ==
  IF \E k \in 1..Len(seq) : seq[k] = "nl"
  THEN CHOOSE k \in 1..Len(seq) : seq[k] = "nl" /\ \A j \in 1..(k - 1) : seq[j] # "nl"
  ELSE 0

\* _trim_channel_log_if_needed that keeps the last TRIM_KEEP_BYTES as they are
_trim_channel_log_if_needed_tail(exists, content) ==
  IF ~exists \/ Len(content) <= MAX_CHANNEL_LOG_BYTES THEN content
  ELSE Drop(content, Len(content) - TRIM_KEEP_BYTES + 1)

\* _trim_channel_log_if_needed: the content of the file after the call
_trim_channel_log_if_needed(exists, content) ==
  IF ~exists THEN content
  ELSE IF Len(content) <= MAX_CHANNEL_LOG_BYTES THEN content
  ELSE IF Len(content) <= TRIM_KEEP_BYTES THEN content
  ELSE LET tail == Drop(content, Len(content) - TRIM_KEEP_BYTES + 1)
           newline_at == Find(tail)
       IN IF newline_at # 0 THEN Drop(tail, newline_at + 1) ELSE tail

\* a call of _trim_channel_log_if_needed by itself
trim_channel_log ==
  /\ log_file' = _trim_channel_log_if_needed(log_exists, log_file)
  /\ UNCHANGED <<log_listeners, pump, received, log_exists>>
  /\ LogStep("trim", Len(log_file))

\* append_metadata_log that does not trim
MetadataAppended_untrimmed(exists, content, len) == content \o Line(len)

\* append_metadata_log: trim if needed, then append the line
MetadataAppended(exists, content, len) ==
  _trim_channel_log_if_needed(exists, content) \o Line(len)

append_metadata_log(len) ==
  /\ log_file' = MetadataAppended(log_exists, log_file, len)
  /\ log_exists' = TRUE
  /\ UNCHANGED <<log_listeners, pump, received>>
  /\ LogStep("append_metadata", Len(log_file))

\* asyncio.create_task(_pipe_stderr(proc.stderr)): open(log_path, "ab")
pump_start ==
  /\ pump.state = "none"
  /\ pump' = [pump EXCEPT !.state = "read"]
  /\ log_exists' = TRUE
  /\ UNCHANGED <<log_listeners, received, log_file>>
  /\ LogStep("pump_start", 0)

\* readline returned a line of len bytes: on_log(decoded), that is cb(line),
\* begins its iteration over _log_listeners[cid]
pump_readline(len) ==
  /\ pump.state = "read"
  /\ pump.n < MaxLines
  /\ Len(log_file) + len <= MaxFileLen
  /\ pump' = [state |-> "dispatch", n |-> pump.n + 1, line |-> Line(len), i |-> 0,
               snap |-> {log_listeners[k] : k \in DOMAIN log_listeners}, gone |-> {}]
  /\ UNCHANGED <<log_listeners, received, log_exists, log_file>>
  /\ LogStep("readline", 0)

\* readline returned b"": the encoder has closed its stderr, the pump ends
pump_eof ==
  /\ pump.state = "read"
  /\ pump' = [pump EXCEPT !.state = "eof"]
  /\ UNCHANGED <<log_listeners, received, log_exists, log_file>>
  /\ LogStep("eof", 0)

\* the iteration of cb is over: f.write(line), f.flush(), the next readline
pump_write ==
  /\ pump.state = "dispatch"
  /\ pump.i >= Len(log_listeners)
  /\ pump' = [pump EXCEPT !.state = "read"]
  /\ log_file' = log_file \o pump.line
  /\ UNCHANGED <<log_listeners, received, log_exists>>
  /\ LogStep("pump_write", Len(log_file))

\* list.remove(f): the first occurrence of f
Remove(list, f) ==
  LET k == CHOOSE k \in 1..Len(list) : list[k] = f /\ \A j \in 1..(k - 1) : list[j] # f
  IN SubSeq(list, 1, k - 1) \o Drop(list, k + 1)

\* subscribe_logs while no line is dispatched.  A callback is subscribed
\* once at a time.
subscribe_logs(f) ==
  /\ pump.state # "dispatch"
  /\ \A k \in DOMAIN log_listeners : log_listeners[k] # f
  /\ log_listeners' = Append(log_listeners, f)
  /\ UNCHANGED <<pump, received, log_exists, log_file>>
  /\ LogStep("subscribe", f)

\* the unsub function of f is called while no line is dispatched
unsub(f) ==
  /\ pump.state # "dispatch"
  /\ \E k \in DOMAIN log_listeners : log_listeners[k] = f
  /\ log_listeners' = Remove(log_listeners, f)
  /\ UNCHANGED <<pump, received, log_exists, log_file>>
  /\ LogStep("unsub", f)

\* the callback the iteration of cb calls next (0: the iteration is over).
\* The iterator of a Python list holds an index into the list as it is now.
NextCallback ==
  IF pump.state = "dispatch" /\ pump.i < Len(log_listeners)
  THEN log_listeners[pump.i + 1] ELSE 0

\* an exception of the callback that ends the pump
CallbackRaised_escapes(p) == [p EXCEPT !.state = "eof"]

\* "except Exception: pass": the iteration goes on
CallbackRaised(p) == [p EXCEPT !.i = @ + 1]

\* fn(line) returns
callback_returns(f) ==
  /\ f = NextCallback
  /\ received' = [received EXCEPT ![f] = Append(@, pump.n)]
  /\ pump' = [pump EXCEPT !.i = @ + 1]
  /\ UNCHANGED <<log_listeners, log_exists, log_file>>
  /\ LogStep("cb_return", f)

\* fn(line) raises an Exception
callback_raises(f) ==
  /\ f = NextCallback
  /\ received' = [received EXCEPT ![f] = Append(@, pump.n)]
  /\ pump' = CallbackRaised(pump)
  /\ UNCHANGED <<log_listeners, log_exists, log_file>>
  /\ LogStep("cb_raise", f)

\* fn(line) calls the unsub function of g, its own or another's, and returns
callback_unsubscribes(f, g) ==
  /\ f = NextCallback
  /\ \E k \in DOMAIN log_listeners : log_listeners[k] = g
  /\ received' = [received EXCEPT ![f] = Append(@, pump.n)]
  /\ log_listeners' = Remove(log_listeners, g)
  /\ pump' = [pump EXCEPT !.i = @ + 1, !.gone = @ \cup {g}]
  /\ UNCHANGED <<log_exists, log_file>>
  /\ LogStep("cb_unsub", f)

\* fn(line) calls subscribe_logs(cid, g) and returns
callback_subscribes(f, g) ==
  /\ f = NextCallback
  /\ \A k \in DOMAIN log_listeners : log_listeners[k] # g
  /\ received' = [received EXCEPT ![f] = Append(@, pump.n)]
  /\ log_listeners' = Append(log_listeners, g)
  /\ pump' = [pump EXCEPT !.i = @ + 1]
  /\ UNCHANGED <<log_exists, log_file>>
  /\ LogStep("cb_sub", f)

\* ---- artist bio (metadata.py) ----

\* a step of fetch_artist_bio
MetaStep(name) ==
  /\ last' = [NoReturn EXCEPT !.op = name]
  /\ UNCHANGED <<cfgVars, supVars, op, chan, pc, ref, todo, hist, logVars,
                 metadata_providers, calls>>

\* the providers in the configured order
Sort_configured(providers) == providers

\* sorted(providers, key = 0 for "Last.fm", 1 otherwise): the sort is stable
Sort(providers) ==
  SelectSeq(providers, LAMBDA q : q.name = "Last.fm")
    \o SelectSeq(providers, LAMBDA q : q.name # "Last.fm")

\* the branch of the loop for provider q awaits a fetch: MusicBrainz always,
\* TheAudioDB always (its key defaults to "2"), Last.fm, Discogs and Genius
\* with a key; a provider of another name or none is passed over
Asked(q) ==
  \/ q.name \in {"MusicBrainz", "TheAudioDB"}
  \/ q.name \in {"Last.fm", "Discogs", "Genius"} /\ q.key # ""

\* the loop over the providers from the head of b.todo up to its next
\* await, or past its end: set_cached(artist, bio="\u2014"), return
RECURSIVE BioLoop(_, _)
BioLoop(b, cache) ==
  IF b.todo = <<>>
  THEN [call |-> [b EXCEPT !.pc = "done", !.result = "dash"], cache |-> "dash"]
  ELSE IF Asked(Head(b.todo))
  THEN [call |-> [b EXCEPT !.pc = "fetch",
                            !.contacted = Append(@, Head(b.todo).name)],
        cache |-> cache]
  ELSE BioLoop([b EXCEPT !.todo = Tail(@)], cache)

\* fetch_artist_bio up to its first await
BioEnter(artist, providers, cache) ==
  LET b == [NoBioCall EXCEPT !.artist = artist, !.cache0 = cache] IN
  IF ~artist THEN [call |-> [b EXCEPT !.pc = "done", !.result = "dash"], cache |-> cache]
  ELSE IF cache \notin {"absent", "null"}
  THEN [call |-> [b EXCEPT !.pc = "done", !.result = cache], cache |-> cache]
  ELSE BioLoop([b EXCEPT !.todo = Sort(providers)], cache)

\* the fetch of the provider at the head of b.todo returned out
BioFetched(b, cache, out) ==
  LET b1 == [b EXCEPT !.outs = Append(@, out)] IN
  IF out # ""
  THEN [call |-> [b1 EXCEPT !.pc = "done", !.result = out], cache |-> out]
  ELSE BioLoop([b1 EXCEPT !.todo = Tail(@)], cache)

\* the bios a provider returns; "" stands for no result or a rejected one
Bios == {"bio_a", "bio_b"}

fetch_artist_bio(artist) ==
  /\ bio_call.pc = "idle"
  /\ LET r == BioEnter(artist, metadata_providers, bio_cache) IN
       /\ bio_call' = r.call
       /\ bio_cache' = r.cache
  /\ MetaStep("bio_called")

\* _fetch_musicbrainz, _fetch_theaudiodb, _fetch_lastfm, _fetch_discogs_bio
\* or _fetch_genius_bio returned
fetch_returns(out) ==
  /\ bio_call.pc = "fetch"
  /\ LET r == BioFetched(bio_call, bio_cache, out) IN
       /\ bio_call' = r.call
       /\ bio_cache' = r.cache
  /\ MetaStep("bio_fetched")

\* the caller has the result; the next call can begin
bio_returned ==
  /\ bio_call.pc = "done"
  /\ bio_call' = NoBioCall
  /\ bio_cache' = bio_cache
  /\ MetaStep("bio_returned")

\* ---- called parts: a step ----

\* a step of a part that the supervisor only calls, noted in last
CallStep(name, f) ==
  /\ last' = [NoReturn EXCEPT !.op = name, !.arg = f]
  /\ UNCHANGED <<cfgVars, supVars, op, chan, pc, ref, todo, hist, logVars, metaVars>>

\* ---- metadata cache (metadata_cache.py) ----

\* the characters of the model's artist names: "S" and "s", the letter
\* "sz" (U+00DF) that str.lower leaves as it is, the space and the tab
Chars == {"S", "s", "sz", " ", "tab"}
Whitespace == {" ", "tab"}

\* str.strip()
RECURSIVE Strip(_)
Strip(x) ==
  IF x = <<>> THEN x
  ELSE IF Head(x) \in Whitespace THEN Strip(Tail(x))
  ELSE IF x[Len(x)] \in Whitespace THEN Strip(SubSeq(x, 1, Len(x) - 1))
  ELSE x

\* str.lower()
Lower(x) == [k \in DOMAIN x |-> IF x[k] = "S" THEN "s" ELSE x[k]]

\* re.sub(r"\s+", " ", x)
RECURSIVE Collapse(_)
Collapse(x) ==
  IF x = <<>> THEN x
  ELSE IF Head(x) \in Whitespace
  THEN IF Len(x) > 1 /\ x[2] \in Whitespace THEN Collapse(Tail(x))
       ELSE <<" ">> \o Collapse(Tail(x))
  ELSE <<Head(x)>> \o Collapse(Tail(x))

\* _artist_key that does not lower the case
_artist_key_cased(artist) == IF artist = <<>> THEN <<>> ELSE Collapse(Strip(artist))

\* _artist_key: re.sub(r"\s+", " ", artist.strip().lower())
_artist_key(artist) == IF artist = <<>> THEN <<>> ELSE Collapse(Lower(Strip(artist)))

\* get_cached(artist) on the cache c
get_cached(c, artist) ==
  LET key == _artist_key(artist) IN
  IF key = <<>> THEN NotCached
  ELSE IF key \notin DOMAIN c.index THEN NotCached
  ELSE [found |-> TRUE, bio |-> c.index[key].bio, image_url |-> c.index[key].image_url,
        image_path |-> key \in c.images]

\* set_cached that writes a new entry with what it is given
set_cached_fresh(c, artist, bio, image_url) ==
  LET key == _artist_key(artist)
      entry == [bio |-> bio, image_url |-> IF image_url # "null" THEN image_url ELSE ""]
  IN IF key = <<>> THEN c.index
     ELSE [k \in DOMAIN c.index \cup {key} |-> IF k = key THEN entry ELSE c.index[k]]

\* set_cached(artist, bio=bio, image_url=image_url) on the cache c ("null":
\* the argument is None): the index after the call
set_cached(c, artist, bio, image_url) ==
  LET key == _artist_key(artist)
      old == IF key \in DOMAIN c.index THEN c.index[key]
             ELSE [bio |-> "null", image_url |-> ""]
      entry == [bio |-> IF bio # "null" THEN bio ELSE old.bio,
                image_url |-> IF image_url # "null" THEN image_url ELSE old.image_url]
  IN IF key = <<>> THEN c.index
     ELSE [k \in DOMAIN c.index \cup {key} |-> IF k = key THEN entry ELSE c.index[k]]

\* the artist names a call is made with: 1 is cache.a, 2 is cache.b
Name(n) == IF n = 1 THEN calls.cache.a ELSE calls.cache.b

\* set_cached(name, bio=bio)
cache_set_bio(n, bio) ==
  /\ calls' = [calls EXCEPT !.cache.index = set_cached(calls.cache, Name(n), bio, "null"),
                            !.cache.set = [n |-> n, bio |-> bio]]
  /\ CallStep("set_cached", n)

\* get_cached(name)
cache_get(n) ==
  /\ calls' = [calls EXCEPT !.cache.got = get_cached(calls.cache, Name(n))]
  /\ CallStep("get_cached", n)

\* ---- artist bio through the cache (metadata.py, metadata_cache.py) ----

\* the bio of the entry that fetch_artist_bio finds for artist: "absent"
\* when get_cached returns None, "null" when the bio of the entry is None
EntryBio(c, artist) ==
  LET cached == get_cached(c, artist) IN
  IF ~cached.found THEN "absent" ELSE cached.bio

\* a step of fetch_artist_bio that uses the cache of calls.cache, n the name
\* it was called with
LookupStep(name, n) ==
  /\ last' = [NoReturn EXCEPT !.op = name, !.arg = n]
  /\ UNCHANGED <<cfgVars, supVars, op, chan, pc, ref, todo, hist, logVars,
                 metadata_providers>>

\* the index after a part of fetch_artist_bio that found the bio before
\* and leaves the bio after: set_cached(artist, bio=after) was called iff
\* the two differ
BioStored(c, artist, before, after) ==
  IF after # before THEN set_cached(c, artist, after, "null") ELSE c.index

\* fetch_artist_bio(Name(n)) up to its first await
bio_lookup(n) ==
  /\ bio_call.pc = "idle"
  /\ LET artist == Strip(Name(n))
         before == EntryBio(calls.cache, artist)
         r == BioEnter(artist # <<>>, metadata_providers, before)
     IN /\ bio_call' = r.call
        /\ bio_cache' = r.cache
        /\ calls' = [calls EXCEPT !.lookup.n = n,
                                  !.cache.index = BioStored(calls.cache, artist, before, r.cache)]
  /\ LookupStep("bio_lookup", n)

\* the provider asked returned out
bio_lookup_fetched(out) ==
  /\ bio_call.pc = "fetch"
  /\ LET artist == Strip(Name(calls.lookup.n))
         before == EntryBio(calls.cache, artist)
         r == BioFetched(bio_call, before, out)
     IN /\ bio_call' = r.call
        /\ bio_cache' = r.cache
        /\ calls' = [calls EXCEPT
                       !.cache.index = BioStored(calls.cache, artist, before, r.cache)]
  /\ LookupStep("bio_lookup_fetched", calls.lookup.n)

\* the caller has the bio
bio_lookup_returned ==
  /\ bio_call.pc = "done"
  /\ bio_call' = NoBioCall
  /\ calls' = [calls EXCEPT !.lookup.n = 0]
  /\ UNCHANGED bio_cache
  /\ LookupStep("bio_lookup_returned", calls.lookup.n)

\* set_cached(name, image_url=url), as fetch_artist_image_url calls it with
\* the URL it has found
cache_set_image(n, url) ==
  /\ calls' = [calls EXCEPT !.cache.index = set_cached(calls.cache, Name(n), "null", url)]
  /\ CallStep("set_cached_image", n)

\* ---- artist image (metadata.py) ----

\* the artist of the calls
ImageArtist == <<"s">>

\* an answer of a provider: failed (the request raised or the status was
\* not a success) or the image URLs of the first result in the order the
\* code looks at them; "placeholder" is a URL with the fingerprint of the
\* Last.fm placeholder image, "file" the file:// URL of the cached image
Answers == {[failed |-> TRUE, urls |-> <<>>], [failed |-> FALSE, urls |-> <<>>],
            [failed |-> FALSE, urls |-> <<"url_a">>]}

LastfmAnswers ==
  Answers \cup {[failed |-> FALSE, urls |-> <<"placeholder">>],
                [failed |-> FALSE, urls |-> <<"placeholder", "url_a">>]}

\* the first URL of the answer that is not empty and begins with http
RECURSIVE FirstUrl(_)
FirstUrl(urls) ==
  IF urls = <<>> THEN ""
  ELSE IF Head(urls) # "" THEN Head(urls) ELSE FirstUrl(Tail(urls))

\* the Last.fm branch: the first URL that in addition is without the
\* fingerprint of the placeholder
RECURSIVE FirstUrlLastfm(_)
FirstUrlLastfm(urls) ==
  IF urls = <<>> THEN ""
  ELSE IF Head(urls) # "" /\ Head(urls) # "placeholder" THEN Head(urls)
  ELSE FirstUrlLastfm(Tail(urls))

\* what the fetch of provider name returns for the answer
ImageUrl_any(name, answer) == IF answer.failed THEN "" ELSE FirstUrl(answer.urls)

ImageUrl(name, answer) ==
  IF answer.failed THEN ""
  ELSE IF name = "Last.fm" THEN FirstUrlLastfm(answer.urls)
  ELSE FirstUrl(answer.urls)

\* the branch of the loop over the configured providers for q awaits a
\* request: Last.fm, Discogs and Genius with a key, Spotify with a key of
\* the form id:secret, Deezer and iTunes always
ImageAsked(q) ==
  \/ q.name \in {"Deezer", "iTunes"}
  \/ q.name \in {"Last.fm", "Discogs", "Genius"} /\ q.key # ""
  \/ q.name = "Spotify" /\ q.key = "id:secret"

\* the loop over the configured providers from the head of m.todo up to its
\* next await, or past its end: return ""
RECURSIVE ImageLoop(_)
ImageLoop(m) ==
  IF m.todo = <<>> THEN [m EXCEPT !.pc = "done", !.result = ""]
  ELSE IF ImageAsked(Head(m.todo))
  THEN [m EXCEPT !.pc = "fetch", !.stage = "providers",
                 !.contacted = Append(@, Head(m.todo).name)]
  ELSE ImageLoop([m EXCEPT !.todo = Tail(@)])

\* fetch_artist_image_url_musicbrainz is called
ImageMusicBrainz(m) ==
  [m EXCEPT !.pc = "fetch", !.stage = "musicbrainz", !.todo = <<>>,
            !.contacted = Append(@, "MusicBrainz")]

\* the loop of fetch_artist_image_url_theaudiodb from the head of m.todo up
\* to its next await, or past its end: it returns "" and MusicBrainz is next
RECURSIVE ImageTheAudioDB(_)
ImageTheAudioDB(m) ==
  IF m.todo = <<>> THEN ImageMusicBrainz(m)
  ELSE IF Head(m.todo).name = "TheAudioDB"
  THEN [m EXCEPT !.pc = "fetch", !.stage = "theaudiodb",
                 !.contacted = Append(@, "TheAudioDB")]
  ELSE ImageTheAudioDB([m EXCEPT !.todo = Tail(@)])

\* fetch_artist_image_url up to its first await, on the cache c
ImageEnter(artist, providers, c) ==
  LET cached == get_cached(c, ImageArtist)
      m == [NoImageCall EXCEPT !.artist = artist, !.cache0 = cached]
  IN IF ~artist THEN [m EXCEPT !.pc = "done", !.result = ""]
     ELSE IF cached.found /\ cached.image_path
     THEN [m EXCEPT !.pc = "done", !.result = "file"]
     ELSE IF cached.found /\ cached.image_url # ""
     THEN [m EXCEPT !.pc = "done", !.result = cached.image_url]
     ELSE ImageTheAudioDB([m EXCEPT !.todo = providers])

\* the request of the call m got the answer: the call and the index after it
ImageFetched(m, providers, c, answer) ==
  LET name == m.contacted[Len(m.contacted)]
      url == ImageUrl(name, answer)
      m1 == [m EXCEPT !.outs = Append(@, answer)]
  IN IF url # ""
     THEN [call |-> [m1 EXCEPT !.pc = "done", !.result = url],
           index |-> set_cached(c, ImageArtist, "null", url)]
     ELSE [call |-> IF m.stage = "theaudiodb"
                    THEN IF answer.failed THEN ImageTheAudioDB([m1 EXCEPT !.todo = Tail(@)])
                         ELSE ImageMusicBrainz(m1)
                    ELSE IF m.stage = "musicbrainz"
                    THEN ImageLoop([m1 EXCEPT !.todo = providers])
                    ELSE ImageLoop([m1 EXCEPT !.todo = Tail(@)]),
           index |-> c.index]

fetch_artist_image_url(artist) ==
  /\ calls.image.pc = "idle"
  /\ calls' = [calls EXCEPT !.image = ImageEnter(artist, metadata_providers, calls.cache)]
  /\ CallStep("image_called", 0)

\* the request to the provider asked last returned
image_fetch_returns(answer) ==
  /\ calls.image.pc = "fetch"
  /\ answer \in IF calls.image.contacted[Len(calls.image.contacted)] = "Last.fm"
                 THEN LastfmAnswers ELSE Answers
  /\ LET r == ImageFetched(calls.image, metadata_providers, calls.cache, answer) IN
       calls' = [calls EXCEPT !.image = r.call, !.cache.index = r.index]
  /\ CallStep("image_fetched", 0)

\* the caller has the result; the next call can begin
image_returned ==
  /\ calls.image.pc = "done"
  /\ calls' = [calls EXCEPT !.image = NoImageCall]
  /\ CallStep("image_returned", 0)

\* save_cached_image(artist, path): write_now_playing_files has downloaded
\* the image of the URL
save_cached_image ==
  /\ calls.image.pc = "idle"
  /\ _artist_key(ImageArtist) \notin calls.cache.images
  /\ calls' = [calls EXCEPT !.cache.images = @ \cup {_artist_key(ImageArtist)}]
  /\ CallStep("save_cached_image", 0)

\* the image file is removed from the disk
image_file_removed ==
  /\ calls.image.pc = "idle"
  /\ _artist_key(ImageArtist) \in calls.cache.images
  /\ calls' = [calls EXCEPT !.cache.images = @ \ {_artist_key(ImageArtist)}]
  /\ CallStep("image_file_removed", 0)

\* ---- text wrapping (now_playing.py) ----

\* the characters of a text: letters, the space, the tab, the newline and
\* the placeholder U+2014
TextChars == {"a", "b", " ", "tab", "nl"}
White == {" ", "tab", "nl"}

\* str.lstrip()
RECURSIVE LStrip(_)
LStrip(x) == IF x # <<>> /\ Head(x) \in White THEN LStrip(Tail(x)) ELSE x

\* str.rstrip()
RECURSIVE RStrip(_)
RStrip(x) ==
  IF x # <<>> /\ x[Len(x)] \in White THEN RStrip(SubSeq(x, 1, Len(x) - 1)) ELSE x

\* str.strip()
StripWhite(x) == RStrip(LStrip(x))

\* str.replace("\n", " ")
ReplaceNewlines(x) == [k \in DOMAIN x |-> IF x[k] = "nl" THEN " " ELSE x[k]]

\* chunk.rfind(" ") + 1: the position of the last space, 0 when none
RFind1(chunk) ==
  IF \E k \in DOMAIN chunk : chunk[k] = " "
  THEN CHOOSE k \in DOMAIN chunk : chunk[k] = " " /\ \A j \in (k + 1)..Len(chunk) : chunk[j] # " "
  ELSE 0

\* chunk.find(" ") + 1: the position of the first space, 0 when none
Find1(chunk) ==
  IF \E k \in DOMAIN chunk : chunk[k] = " "
  THEN CHOOSE k \in DOMAIN chunk : chunk[k] = " " /\ \A j \in 1..(k - 1) : chunk[j] # " "
  ELSE 0

\* the position of the first space, from 0, or -1
LastSpace_first(chunk) == Find1(chunk) - 1

\* last_space = chunk.rfind(" ")
LastSpace(chunk) == RFind1(chunk) - 1

\* the while loop of _wrap_text: the steps from rest on, each with the rest
\* it began with and the line it appended
RECURSIVE WrapLoop(_, _)
WrapLoop(rest, max) ==
  IF rest = <<>> THEN <<>>
  ELSE IF Len(rest) <= max THEN <<[rest |-> rest, line |-> StripWhite(rest)]>>
  ELSE LET chunk == SubSeq(rest, 1, max + 1)
           last_space == LastSpace(chunk)
       IN IF last_space > 0
          THEN <<[rest |-> rest, line |-> StripWhite(SubSeq(rest, 1, last_space))]>>
                 \o WrapLoop(LStrip(SubSeq(rest, last_space + 2, Len(rest))), max)
          ELSE <<[rest |-> rest, line |-> SubSeq(rest, 1, max)]>>
                 \o WrapLoop(LStrip(SubSeq(rest, max + 1, Len(rest))), max)

\* "\n".join(lines)
RECURSIVE JoinLines(_)
JoinLines(steps) ==
  IF steps = <<>> THEN <<>>
  ELSE IF Len(steps) = 1 THEN steps[1].line
  ELSE steps[1].line \o <<"nl">> \o JoinLines(Tail(steps))

\* the steps of _wrap_text(text, max): none when it returns before the loop
WrapSteps(text, max) ==
  LET t == ReplaceNewlines(StripWhite(text)) IN
  IF text = <<>> \/ max <= 0 \/ Len(t) <= max THEN <<>> ELSE WrapLoop(t, max)

\* _wrap_text(text, max_chars_per_line)
_wrap_text(text, max) ==
  LET t == ReplaceNewlines(StripWhite(text)) IN
  IF text = <<>> \/ max <= 0 THEN text
  ELSE IF Len(t) <= max THEN t
  ELSE JoinLines(WrapLoop(t, max))

\* a call of _wrap_text with the text and the budget of the state
wrap_text ==
  /\ ~calls.wrap.called
  /\ calls' = [calls EXCEPT !.wrap.called = TRUE,
                            !.wrap.out = _wrap_text(calls.wrap.text, calls.wrap.budget),
                            !.wrap.lines = WrapSteps(calls.wrap.text, calls.wrap.budget)]
  /\ CallStep("_wrap_text", 0)

\* the caller has the result
wrap_returned ==
  /\ calls.wrap.called
  /\ calls' = [calls EXCEPT !.wrap = [NoWrap EXCEPT !.text = calls.wrap.text,
                                                    !.budget = calls.wrap.budget]]
  /\ CallStep("wrap_returned", 0)

\* ---- now-playing files and sync loop (now_playing.py) ----

\* the answers of the status endpoint: the request failed (an error, a
\* status that is not a success, a body that is not JSON), the document is
\* not of the expected form, or it has a title and an artist
Documents ==
  {[kind |-> k, title |-> <<>>, artist |-> <<>>] : k \in {"failed", "malformed"}}
    \cup [kind : {"ok"}, title : {<<>>, <<"a">>, <<"b">>}, artist : {<<>>, <<" ">>, <<"a">>}]

\* x or "\u2014"
OrDash(x) == IF x = <<>> THEN Dash ELSE x

\* _fetch_now_playing and _parse_now_playing: (title, artist)
ParseNowPlaying(data) ==
  IF data.kind # "ok" THEN [title |-> Dash, artist |-> Dash]
  ELSE [title |-> OrDash(StripWhite(data.title)), artist |-> OrDash(StripWhite(data.artist))]

\* the resolver is asked whatever the artist
ResolverInvoked_always(artist) == TRUE

\* if artist and artist != "\u2014": fetch_artist_bio and
\* fetch_artist_image_url are called
ResolverInvoked(artist) == artist # <<>> /\ artist # Dash

\* write_now_playing_files for a channel with or without a station, the
\* answer of the station and the bio of the resolver (<<>>: it raised)
WriteNowPlaying(station, data, bio) ==
  IF ~station
  THEN [NotWritten EXCEPT !.title = Dash, !.artist = Dash,
                          !.song_txt = Dash, !.artist_txt = Dash, !.bio_txt = Dash]
  ELSE LET parsed == ParseNowPlaying(data)
           asked == ResolverInvoked(parsed.artist)
           text == IF asked /\ bio # <<>> THEN bio ELSE Dash
       IN [station |-> TRUE, data |-> data, title |-> parsed.title, artist |-> parsed.artist,
           resolver |-> asked,
           song_txt |-> _wrap_text(parsed.title, 56), artist_txt |-> parsed.artist,
           bio_txt |-> _wrap_text(text, 48)]

\* the cycle of now_playing_loop y after write_now_playing_files returned w,
\* up to the call of on_song_change or the wait
SyncWritten(y, w) ==
  LET song == <<w.title, w.artist>>
      y1 == [y EXCEPT !.written = w, !.cycles = @ + 1, !.songs = Append(@, song)]
  IN IF y.configured /\ y.prev # <<>> /\ song # y.prev
     THEN [y1 EXCEPT !.pc = "callback", !.cur = song, !.invoked = Append(@, TRUE)]
     ELSE [y1 EXCEPT !.pc = "wait", !.prev = song, !.invoked = Append(@, FALSE)]

\* on_song_change returned
SyncCallbackReturned(y) == [y EXCEPT !.pc = "wait", !.prev = y.cur, !.cur = <<>>]

\* the exception of on_song_change ends the cycle
SyncCallbackRaised_escapes(y) == [y EXCEPT !.pc = "wait", !.cur = <<>>]

\* on_song_change raised an Exception: it is passed over
SyncCallbackRaised(y) == [y EXCEPT !.pc = "wait", !.prev = y.cur, !.cur = <<>>]

\* a cycle in which write_now_playing_files returns
sync_cycle(station, data, bio) ==
  /\ calls.sync.pc = "top" /\ ~calls.sync.stop
  /\ calls.sync.cycles < MaxCycles
  /\ calls' = [calls EXCEPT !.sync = SyncWritten(calls.sync, WriteNowPlaying(station, data, bio))]
  /\ CallStep("sync_cycle", 0)

\* a cycle in which load_state or write_now_playing_files raises or the
\* channel is not in the state
sync_cycle_fails ==
  /\ calls.sync.pc = "top" /\ ~calls.sync.stop
  /\ calls.sync.cycles < MaxCycles
  /\ calls' = [calls EXCEPT !.sync.pc = "wait", !.sync.cycles = @ + 1]
  /\ CallStep("sync_cycle_fails", 0)

sync_callback_returns ==
  /\ calls.sync.pc = "callback"
  /\ calls' = [calls EXCEPT !.sync = SyncCallbackReturned(calls.sync)]
  /\ CallStep("sync_callback_returns", 0)

sync_callback_raises ==
  /\ calls.sync.pc = "callback"
  /\ calls' = [calls EXCEPT !.sync = SyncCallbackRaised(calls.sync)]
  /\ CallStep("sync_callback_raises", 0)

\* the wait for the stop event times out after the interval
sync_timeout ==
  /\ calls.sync.pc = "wait" /\ ~calls.sync.stop
  /\ calls' = [calls EXCEPT !.sync.pc = "top"]
  /\ CallStep("sync_timeout", 0)

\* the stop event is set
sync_stop ==
  /\ ~calls.sync.stop
  /\ calls' = [calls EXCEPT !.sync.stop = TRUE]
  /\ CallStep("sync_stop", 0)

\* a wait that the stop event does not end: the loop ends at its while
sync_ends_at_top ==
  /\ calls.sync.pc = "top" /\ calls.sync.stop
  /\ calls' = [calls EXCEPT !.sync.pc = "ended"]
  /\ CallStep("sync_ends", 0)

\* the wait returns with the stop event set, or the while finds it set
sync_ends ==
  /\ calls.sync.pc \in {"top", "wait"} /\ calls.sync.stop
  /\ calls' = [calls EXCEPT !.sync.pc = "ended"]
  /\ CallStep("sync_ends", 0)

\* ---- pipeline builder (services.py) ----

\* int(n / d) of Python: the quotient without its fraction. For every v
\* from -2000 to 100 the floating point products v * 19.2 and v * 10.8 of
\* the source have the integer part of v * 192 / 10 and v * 108 / 10.
IntOf(n, d) == IF n >= 0 THEN n \div d ELSE -((-n) \div d)

\* to_px_x that takes 100 for a pixel value
to_px_x_below(from_editor, x) == IF from_editor /\ x < 100 THEN IntOf(x * 192, 10) ELSE x

\* to_px_x: int(x * 19.2) if placements_from_editor and x <= 100 else x
to_px_x(from_editor, x) == IF from_editor /\ x <= 100 THEN IntOf(x * 192, 10) ELSE x

\* to_px_y: int(y * 10.8) if placements_from_editor and y <= 100 else y
to_px_y(from_editor, y) == IF from_editor /\ y <= 100 THEN IntOf(y * 108, 10) ELSE y

\* to_px_x(v) and to_px_y(v) for the value of the state
to_px ==
  /\ ~calls.px.called
  /\ calls' = [calls EXCEPT !.px.called = TRUE,
                            !.px.x = to_px_x(calls.px.placements_from_editor, calls.px.v),
                            !.px.y = to_px_y(calls.px.placements_from_editor, calls.px.v)]
  /\ CallStep("to_px", 0)

\* the coordinates are used; the next placement
to_px_next ==
  /\ calls.px.called
  /\ calls' = [calls EXCEPT !.px = [NoPx EXCEPT
                  !.placements_from_editor = calls.px.placements_from_editor,
                  !.v = calls.px.v]]
  /\ CallStep("to_px_next", 0)

\* the keys of the overlay fields
FieldKeys == <<"channel_name", "song_title", "artist_name", "artist_bio", "artist_image">>

\* default_overlay_placements() for the output size 1280 by 720
default_overlay_placements ==
  <<[key |-> "channel_name", hidden |-> FALSE, x |-> 27, y |-> 27],
    [key |-> "song_title", hidden |-> FALSE, x |-> 80, y |-> 520],
    [key |-> "artist_name", hidden |-> FALSE, x |-> 80, y |-> 598],
    [key |-> "artist_bio", hidden |-> FALSE, x |-> 520, y |-> 270],
    [key |-> "artist_image", hidden |-> FALSE, x |-> 160, y |-> 230]>>

\* None for a placement
NoPlacement == [key |-> "none", hidden |-> FALSE, x |-> 0, y |-> 0]

\* get_placement(placements, key): the first placement of the key, or None
get_placement(placements, key) ==
  LET found == SelectSeq(placements, LAMBDA q : q.key = key) IN
  IF found = <<>> THEN NoPlacement ELSE Head(found)

\* no placement counts as hidden
overlay_hidden_never(pl) == FALSE

\* overlay_hidden(pl): pl is not None and pl.hidden
overlay_hidden(pl) == pl # NoPlacement /\ pl.hidden

\* the input for the sound is the station whether it resolves or not
AudioInput_url(linked) == "audio_url"

\* the first input: the listen URL of the station, or the silence generator
AudioInput(linked) == IF linked THEN "audio_url" ELSE "anullsrc"

audio_input_index == 0
video_input_index == 1

\* a drawtext filter
DrawText(file, x, y) == [filter |-> "drawtext", textfile |-> file, x |-> x, y |-> y]

\* a filter that is not a drawtext
Filter(name) == [filter |-> name, textfile |-> "", x |-> 0, y |-> 0]

\* the ends of a chain of the filter graph: a stream of an input, or a label
Pad(i) == [input |-> i, label |-> ""]
Label(n) == [input |-> -1, label |-> n]

\* art.png is composited whenever it exists
ArtComposited_any(art_exists, image_visible) == art_exists

\* if art_path.exists() and image_visible
ArtComposited(art_exists, image_visible) == art_exists /\ image_visible

\* the command _start_single_channel builds for the job
BuildCommand(job) ==
  LET e == job.placements_from_editor
      placements == job.placements
      channel_name_pl == get_placement(placements, "channel_name")
      song_pl == IF get_placement(placements, "song_title") # NoPlacement
                 THEN get_placement(placements, "song_title")
                 ELSE IF placements # <<>> THEN placements[1] ELSE NoPlacement
      artist_pl == IF get_placement(placements, "artist_name") # NoPlacement
                   THEN get_placement(placements, "artist_name")
                   ELSE IF Len(placements) > 1 THEN placements[2] ELSE NoPlacement
      bio_pl == get_placement(placements, "artist_bio")
      image_pl == get_placement(placements, "artist_image")
      X(pl, default) == IF pl # NoPlacement THEN to_px_x(e, pl.x) ELSE default
      Y(pl, default) == IF pl # NoPlacement THEN to_px_y(e, pl.y) ELSE default
      w == WriteNowPlaying(job.linked, job.data, job.bio)
      vf_parts ==
        <<Filter("scale")>>
          \o (IF ~overlay_hidden(channel_name_pl)
              THEN <<DrawText("channel_name.txt", X(channel_name_pl, 40), Y(channel_name_pl, 40))>>
              ELSE <<>>)
          \o (IF ~overlay_hidden(song_pl)
              THEN <<DrawText("song.txt", X(song_pl, 80), Y(song_pl, 520))>> ELSE <<>>)
          \o (IF ~overlay_hidden(artist_pl)
              THEN <<DrawText("artist.txt", X(artist_pl, 80), Y(artist_pl, 560))>> ELSE <<>>)
          \o (IF bio_pl # NoPlacement /\ ~overlay_hidden(bio_pl)
              THEN <<DrawText("bio.txt", X(bio_pl, 500), Y(bio_pl, 280))>> ELSE <<>>)
      image_visible == image_pl # NoPlacement /\ ~overlay_hidden(image_pl)
      \* with a placement and no art.png a gray image is written; that the
      \* writing fails is left out
      art_exists == job.art \/ image_pl # NoPlacement
      video == IF job.bg THEN "background" ELSE "color"
      files == [NoCommand EXCEPT !.song_txt = w.song_txt, !.artist_txt = w.artist_txt,
                                 !.bio_txt = w.bio_txt,
                                 !.audio_map = [kind |-> "stream", label |-> "",
                                                index |-> audio_input_index]]
  IN IF ArtComposited(art_exists, image_visible)
     THEN [files EXCEPT
             !.inputs = <<AudioInput(job.linked), video, "art.png">>,
             !.graph = <<[ins |-> <<Pad(1)>>, filters |-> vf_parts, out |-> "vbase"],
                         [ins |-> <<Pad(2)>>, filters |-> <<Filter("scale"), Filter("format")>>,
                          out |-> "art"],
                         [ins |-> <<Label("vbase"), Label("art")>>,
                          filters |-> <<[Filter("overlay") EXCEPT
                                           !.x = to_px_x(e, image_pl.x),
                                           !.y = to_px_y(e, image_pl.y)],
                                        Filter("format")>>,
                          out |-> "vout"]>>,
             !.video_map = [kind |-> "label", label |-> "vout", index |-> -1]]
     ELSE [files EXCEPT
             !.inputs = <<AudioInput(job.linked), video>>,
             !.vf_arg = vf_parts,
             !.video_map = [kind |-> "stream", label |-> "", index |-> video_input_index]]

\* _start_single_channel builds the command for the job of the state
build_command ==
  /\ ~calls.build.built
  /\ calls' = [calls EXCEPT !.build.built = TRUE, !.build.cmd = BuildCommand(calls.build.job)]
  /\ CallStep("build_command", 0)

\* the command is handed to start_channel_ffmpeg
build_spawned ==
  /\ calls.build.built
  /\ calls' = [calls EXCEPT !.build.built = FALSE, !.build.cmd = NoCommand]
  /\ CallStep("build_spawned", 0)

\* ---- type-only heuristic (metadata.py) ----

\* a provider string is a sequence of these: "Group" a word of the pattern's
\* vocabulary in any case, "Word" any other word, "dot" the separator U+00B7,
\* " " a whitespace character, "(US)" two letters in parentheses
Tokens == {"Group", "Word", "dot", " ", "(US)"}

\* the number of characters
RECURSIVE CharLen(_)
CharLen(x) ==
  IF x = <<>> THEN 0
  ELSE (IF Head(x) \in {"dot", " "} THEN 1 ELSE IF Head(x) = "Group" THEN 5 ELSE 4)
       + CharLen(Tail(x))

\* s.strip()
RECURSIVE StripText(_)
StripText(x) ==
  IF x = <<>> THEN x
  ELSE IF Head(x) = " " THEN StripText(Tail(x))
  ELSE IF x[Len(x)] = " " THEN StripText(SubSeq(x, 1, Len(x) - 1))
  ELSE x

Spaces(x) == \A k \in DOMAIN x : x[k] = " "

\* (\s*dot\s*[^dot]+)? matches x
Disambiguation(x) ==
  \/ x = <<>>
  \/ \E i \in DOMAIN x, j \in DOMAIN x :
        /\ i <= j /\ j < Len(x)
        /\ Spaces(SubSeq(x, 1, i - 1))
        /\ x[i] = "dot"
        /\ Spaces(SubSeq(x, i + 1, j))
        /\ \A k \in (j + 1)..Len(x) : x[k] # "dot"

\* re.match(pattern, x, re.IGNORECASE) with the pattern
\* ^(Group|...|Other)(\s*dot\s*[^dot]+)?\s*(\([A-Z]{2}\))?$
Matches(x) ==
  \E a \in 1..Len(x), b \in 1..Len(x), c \in 1..Len(x) :
    /\ a <= b /\ b <= c
    /\ x[1] = "Group"
    /\ Disambiguation(SubSeq(x, 2, a))
    /\ Spaces(SubSeq(x, a + 1, b))
    /\ SubSeq(x, b + 1, c) \in {<<>>, <<"(US)">>}
    /\ c = Len(x)

\* _is_type_only_bio(x)
_is_type_only_bio(x) ==
  IF x = <<>> \/ CharLen(x) > 80 THEN CharLen(x) <= 80
  ELSE Matches(StripText(x))

\* " dot ".join(parts)
RECURSIVE Join(_)
Join(parts) ==
  IF parts = <<>> THEN <<>>
  ELSE IF Len(parts) = 1 THEN Head(parts)
  ELSE Head(parts) \o <<" ", "dot", " ">> \o Join(Tail(parts))

\* _fetch_musicbrainz after the answer: the artist's type, disambiguation
\* and country, each <<>> when the answer has none ("null" or "")
MusicBrainzOut(type, disambiguation, country) ==
  LET parts == SelectSeq(<<type, disambiguation, country>>, LAMBDA x : x # <<>>)
      out == Join(parts)
  IN IF parts = <<>> THEN <<>>
     ELSE IF _is_type_only_bio(out) THEN <<>> ELSE out

\* a call of _is_type_only_bio with the string of the state
is_type_only_bio ==
  /\ calls' = [calls EXCEPT !.typeonly.out =
                  IF _is_type_only_bio(calls.typeonly.s) THEN "rejected" ELSE "accepted"]
  /\ CallStep("_is_type_only_bio", 0)

\* _fetch_musicbrainz gets an answer with at least one of the three parts
fetch_musicbrainz(type, disambiguation, country) ==
  LET parts == SelectSeq(<<type, disambiguation, country>>, LAMBDA x : x # <<>>) IN
  /\ parts # <<>>
  /\ calls' = [calls EXCEPT !.typeonly =
                  [s |-> Join(parts),
                   out |-> IF _is_type_only_bio(Join(parts)) THEN "rejected" ELSE "accepted",
                   ret |-> MusicBrainzOut(type, disambiguation, country)]]
  /\ CallStep("_fetch_musicbrainz", 0)

\* ---- specifications ----

Encoder ==
  \/ \E p \in Procs : ProcExit(p)

MetadataLoop ==
  \/ \E n \in Procs : now_playing_loop_cycle_end(n)
  \/ \E n \in Procs : now_playing_loop_wait_end(n)
  \/ \E n \in Procs : now_playing_loop_cancelled(n)

Watch ==
  \/ \E p \in Procs : watch_exit(p)
  \/ \E p \in Procs : watch_np_done(p)
  \/ \E p \in Procs : watch_wake(p)
  \/ \E p \in Procs : watch_spawn_ok(p)
  \/ \E p \in Procs : watch_spawn_failed(p)

Config ==
  \/ \E c \in Channels : set_enabled(c)
  \/ set_profiles

\* one call at a time: a call begins when none is in flight
Sequential ==
  \/ \E t \in Callers, c \in Channels : ~OthersActive(t) /\ start_channel(t, c)
  \/ \E t \in Callers, c \in Channels : ~OthersActive(t) /\ stop_channel_api(t, c)
  \/ \E t \in Callers, c \in Channels : ~OthersActive(t) /\ restart_channel(t, c)

Steps ==
  \/ \E t \in Callers : spawn_ok(t)
  \/ \E t \in Callers : spawn_failed(t)
  \/ \E t \in Callers : stop_channel_exited(t)
  \/ \E t \in Callers : stop_channel_kill(t)
  \/ \E t \in Callers : stop_channel_np_done(t)
  \/ \E t \in Callers : stop_channel_np_timeout(t)
  \/ \E t \in Callers : stop_channel_watch_done(t)

\* the supervisor with start, stop and restart requests, one at a time
Next == Encoder \/ MetadataLoop \/ Watch \/ Sequential \/ Steps \/ Elapse

Spec == Init /\ [][Next]_vars

\* the event loop runs every task that can go on: a caller whose wait for
\* a process, a metadata loop or a watch task has ended or timed out, a watch
\* task after its wait for the metadata loop, after its sleep and after its
\* spawn, a cancelled metadata loop; the clock goes on.  Nothing says that
\* an encoder exits or that a cycle of a metadata loop ends.
Fairness ==
  /\ \A t \in Callers : WF_vars(stop_channel_exited(t) \/ stop_channel_kill(t))
  /\ \A t \in Callers : WF_vars(stop_channel_np_done(t) \/ stop_channel_np_timeout(t))
  /\ \A t \in Callers : WF_vars(stop_channel_watch_done(t))
  /\ \A p \in Procs : WF_vars(watch_np_done(p))
  /\ \A p \in Procs : WF_vars(watch_wake(p))
  /\ \A p \in Procs : WF_vars(watch_spawn_ok(p) \/ watch_spawn_failed(p))
  /\ \A n \in Procs : WF_vars(now_playing_loop_cancelled(n))
  /\ WF_vars(Elapse)

\* the supervisor of Spec under that scheduling
SpecFair == Spec /\ Fairness

\* the same, with cycles of the metadata loops that fail
NextLoop ==
  \/ Next
  \/ \E n \in Procs : now_playing_loop_cycle_failed(n)

SpecLoop == Init /\ [][NextLoop]_vars

\* overlapping start requests
NextStart ==
  \/ Encoder \/ MetadataLoop \/ Watch \/ Elapse
  \/ \E t \in Callers, c \in Channels : start_channel(t, c)
  \/ \E t \in Callers : spawn_ok(t)
  \/ \E t \in Callers : spawn_failed(t)

SpecStart == Init /\ [][NextStart]_vars

\* overlapping restart requests
NextRestart ==
  \/ Encoder \/ MetadataLoop \/ Watch \/ Elapse
  \/ \E t \in Callers, c \in Channels : restart_channel(t, c)
  \/ Steps

SpecRestart == Init /\ [][NextRestart]_vars

\* start and startAll requests, one at a time, with the clock in steps of
\* the base delay and with the configuration edited
NextTimed ==
  \/ Encoder \/ MetadataLoop \/ Watch \/ Tick \/ Config
  \/ \E t \in Callers, c \in Channels : ~OthersActive(t) /\ start_channel(t, c)
  \/ \E t \in Callers : ~OthersActive(t) /\ start_all_channels(t)
  \/ \E t \in Callers : spawn_ok(t)
  \/ \E t \in Callers : spawn_failed(t)

SpecTimed == Init /\ [][NextTimed]_vars

\* start requests and deletions of channels, one at a time, with the
\* configuration edited
NextAdmin ==
  \/ Encoder \/ MetadataLoop \/ Watch \/ Elapse \/ Config
  \/ \E c \in Channels : set_profile_id(c)
  \/ \E c \in Channels : put_state_add(c)
  \/ \E t \in Callers, c \in Channels : ~OthersActive(t) /\ put_state_delete(t, c)
  \/ \E t \in Callers, c \in Channels : ~OthersActive(t) /\ start_channel(t, c)
  \/ Steps

SpecAdmin == Init /\ [][NextAdmin]_vars

\* the callers other than t run no operation but deletions
OthersDelete(t) == \A u \in Callers \ {t} : op[u] \in {"none", "delete"}

\* deletions of channels that overlap with one another, with a start
\* request, with a restart request and with the auto-restart
NextDelete ==
  \/ Encoder \/ MetadataLoop \/ Watch \/ Elapse
  \/ \E t \in Callers, c \in Channels : put_state_delete(t, c)
  \/ \E t \in Callers, c \in Channels : OthersDelete(t) /\ start_channel(t, c)
  \/ \E t \in Callers, c \in Channels : OthersDelete(t) /\ restart_channel(t, c)
  \/ Steps

SpecDelete == Init /\ [][NextDelete]_vars

\* one stopAll request at a time, and start requests that overlap with it
\* and with one another
NextStopAll ==
  \/ Encoder \/ MetadataLoop \/ Watch \/ Elapse
  \/ \E t \in Callers, c \in Channels : start_channel(t, c)
  \/ \E t \in Callers :
       /\ \A u \in Callers : pc[u] = "idle" \/ op[u] # "stopAll"
       /\ stop_all_channels(t)
  \/ \E t \in Callers : spawn_ok(t)
  \/ \E t \in Callers : spawn_failed(t)
  \/ \E t \in Callers : stop_all_exited(t)
  \/ \E t \in Callers : stop_all_kill(t)
  \/ \E t \in Callers : stop_all_np_end(t)

SpecStopAll == Init /\ [][NextStopAll]_vars

\* the pump of one channel with subscribers
NextDispatch ==
  \/ pump_start
  \/ \E len \in 1..MaxLineLen : pump_readline(len)
  \/ pump_write
  \/ pump_eof
  \/ \E f \in Callbacks : subscribe_logs(f)
  \/ \E f \in Callbacks : unsub(f)
  \/ \E f \in Callbacks : callback_returns(f)
  \/ \E f \in Callbacks : callback_raises(f)
  \/ \E f, g \in Callbacks : callback_unsubscribes(f, g)
  \/ \E f, g \in Callbacks : callback_subscribes(f, g)

SpecDispatch == Init /\ [][NextDispatch]_vars

\* the log file of one channel: the pump without subscribers and the
\* metadata lines
NextLog ==
  \/ pump_start
  \/ \E len \in 1..MaxLineLen : pump_readline(len)
  \/ pump_write
  \/ pump_eof
  \/ \E len \in 1..MaxLineLen : append_metadata_log(len)

SpecLog == Init /\ [][NextLog]_vars

\* the files of up to MaxFileLen bytes
Contents == UNION {[1..k -> {"nl", "x"}] : k \in 0..MaxFileLen}

\* _trim_channel_log_if_needed called for any file
InitTrim ==
  /\ SupInit
  /\ log_listeners = <<>>
  /\ pump = NoPump
  /\ received = [f \in Callbacks |-> <<>>]
  /\ log_exists \in BOOLEAN
  /\ log_file \in Contents
  /\ ~log_exists => log_file = <<>>
  /\ MetaInit
  /\ CallsInit

SpecTrim == InitTrim /\ [][trim_channel_log]_vars

\* the provider entries of the model
ProviderEntries ==
  [name : {"Last.fm", "MusicBrainz", "TheAudioDB", "Discogs", "Genius", ""},
   key : {"", "k"}]

\* fetch_artist_bio called for any list of providers and any cache entry
InitBio ==
  /\ SupInit
  /\ LogInit
  /\ metadata_providers \in UNION {[1..k -> ProviderEntries] : k \in 0..MaxProviders}
  /\ bio_cache \in {"absent", "null", "dash"} \cup Bios
  /\ bio_call = NoBioCall
  /\ CallsInit

NextBio ==
  \/ \E artist \in BOOLEAN : fetch_artist_bio(artist)
  \/ \E out \in Bios \cup {""} : fetch_returns(out)
  \/ bio_returned

SpecBio == InitBio /\ [][NextBio]_vars

\* the artist names of up to MaxNameLen characters
Names == UNION {[1..k -> Chars] : k \in 0..MaxNameLen}

\* the cache used through any two artist names
InitCache ==
  /\ SupInit /\ LogInit /\ MetaInit
  /\ \E a, b \in Names : calls = [NoCalls EXCEPT !.cache.a = a, !.cache.b = b]

NextCache ==
  \/ \E n \in 1..2, bio \in Bios : cache_set_bio(n, bio)
  \/ \E n \in 1..2 : cache_get(n)

SpecCache == InitCache /\ [][NextCache]_vars

\* the provider entries and the artist names of the lookups through the cache
LookupProviders == [name : {"Last.fm", "MusicBrainz", ""}, key : {"", "k"}]
LookupNames == {<<"s">>, <<"S", " ">>, <<"sz">>}

\* lookups of bios and stores of image URLs on an empty cache, for any two
\* names and any list of providers
InitLookup ==
  /\ SupInit /\ LogInit
  /\ metadata_providers \in UNION {[1..k -> LookupProviders] : k \in 0..MaxLookupProviders}
  /\ bio_cache = "absent"
  /\ bio_call = NoBioCall
  /\ \E a, b \in LookupNames : calls = [NoCalls EXCEPT !.cache.a = a, !.cache.b = b]

NextLookup ==
  \/ \E n \in 1..2 : bio_lookup(n)
  \/ \E out \in Bios \cup {""} : bio_lookup_fetched(out)
  \/ bio_lookup_returned
  \/ \E n \in 1..2, url \in {"u", "v"} : cache_set_image(n, url)

SpecLookup == InitLookup /\ [][NextLookup]_vars

\* the provider strings of up to MaxTokens tokens
Texts == UNION {[1..k -> Tokens] : k \in 0..MaxTokens}

\* the heuristic on any provider string
InitTypeOnly ==
  /\ SupInit /\ LogInit /\ MetaInit
  /\ \E s \in Texts : calls = [NoCalls EXCEPT !.typeonly.s = s]

NextTypeOnly ==
  \/ is_type_only_bio
  \/ \E type \in {<<>>, <<"Group">>, <<"Word">>}, disambiguation \in {<<>>, <<"Word">>},
        country \in {<<>>, <<"(US)">>} : fetch_musicbrainz(type, disambiguation, country)

SpecTypeOnly == InitTypeOnly /\ [][NextTypeOnly]_vars

ImageProviderEntries ==
  [name : {"TheAudioDB", "Last.fm", "Deezer", "Spotify", "Discogs", ""},
   key : {"", "k", "id:secret"}]

\* fetch_artist_image_url called for any list of providers, with an empty
\* cache or an entry of the artist written by fetch_artist_bio
InitImage ==
  /\ SupInit /\ LogInit
  /\ metadata_providers \in UNION {[1..k -> ImageProviderEntries] : k \in 0..MaxImageProviders}
  /\ bio_cache = "absent" /\ bio_call = NoBioCall
  /\ \E index \in {<<>>, set_cached(NoCache, ImageArtist, "bio_a", "null")} :
       calls = [NoCalls EXCEPT !.cache.index = index]

NextImage ==
  \/ \E artist \in BOOLEAN : fetch_artist_image_url(artist)
  \/ \E answer \in LastfmAnswers : image_fetch_returns(answer)
  \/ image_returned
  \/ save_cached_image
  \/ image_file_removed

SpecImage == InitImage /\ [][NextImage]_vars

\* the texts of up to MaxTextLen characters
WrapTexts == UNION {[1..k -> TextChars] : k \in 0..MaxTextLen}

\* _wrap_text on any text with any budget from 0 on
InitWrap ==
  /\ SupInit /\ LogInit /\ MetaInit
  /\ \E text \in WrapTexts, budget \in 0..MaxBudget :
       calls = [NoCalls EXCEPT !.wrap.text = text, !.wrap.budget = budget]

NextWrap == wrap_text \/ wrap_returned

SpecWrap == InitWrap /\ [][NextWrap]_vars

\* now_playing_loop with and without a change callback
InitSync ==
  /\ SupInit /\ LogInit /\ MetaInit
  /\ \E configured \in BOOLEAN : calls = [NoCalls EXCEPT !.sync.configured = configured]

NextSync ==
  \/ \E station \in BOOLEAN, data \in Documents, bio \in {<<>>, <<"b">>} :
       sync_cycle(station, data, bio)
  \/ sync_cycle_fails
  \/ sync_callback_returns
  \/ sync_callback_raises
  \/ sync_timeout
  \/ sync_stop
  \/ sync_ends

SpecSync == InitSync /\ [][NextSync]_vars

\* the loop goes on when it can: on_song_change comes back, and a wait whose
\* event is set returns
SpecSyncFair ==
  /\ SpecSync
  /\ WF_vars(sync_callback_returns \/ sync_callback_raises)
  /\ WF_vars(sync_ends)

\* the coordinates of a placement of the editor and of a default placement
InitPx ==
  /\ SupInit /\ LogInit /\ MetaInit
  /\ \E e \in BOOLEAN, v \in (-MaxCoord)..MaxCoord :
       calls = [NoCalls EXCEPT !.px.placements_from_editor = e, !.px.v = v]

NextPx == to_px \/ to_px_next

SpecPx == InitPx /\ [][NextPx]_vars

\* the placements of a background of the editor: each field without a
\* placement, with a visible one or with a hidden one, at 50 percent
EditorPlacements ==
  {SelectSeq([k \in 1..5 |-> [key |-> FieldKeys[k], hidden |-> st[k] = "hidden",
                               x |-> 50, y |-> 50, absent |-> st[k] = "absent"]],
             LAMBDA q : ~q.absent) :
     st \in [1..5 -> {"absent", "visible", "hidden"}]} \ {<<>>}

Placed(seq) == [k \in DOMAIN seq |-> [key |-> seq[k].key, hidden |-> seq[k].hidden,
                                       x |-> seq[k].x, y |-> seq[k].y]]

\* a command for any placements, with and without station, background file
\* and art.png
InitBuild ==
  /\ SupInit /\ LogInit /\ MetaInit
  /\ \E placements \in {Placed(q) : q \in EditorPlacements} \cup {<<>>},
        linked \in BOOLEAN, bg \in BOOLEAN, art \in BOOLEAN,
        data \in {[kind |-> "failed", title |-> <<>>, artist |-> <<>>],
                  [kind |-> "ok", title |-> <<"a">>, artist |-> <<"b">>]} :
       calls = [NoCalls EXCEPT !.build.job =
                  [placements_from_editor |-> placements # <<>>,
                   placements |-> IF placements # <<>> THEN placements
                                  ELSE default_overlay_placements,
                   linked |-> linked, bg |-> bg, art |-> art, data |-> data,
                   bio |-> <<"b">>]]

NextBuild == build_command \/ build_spawned

SpecBuild == InitBuild /\ [][NextBuild]_vars

\* ---- claims ----

\* the processes registered for c in the process table
Registered(c) == {p \in Procs : running[c] = p}

\* the watch tasks created for c that are not done
LiveWatches(c) ==
  {p \in Procs : inst[p].chan = c /\ inst[p].watch \notin {"none", "done"}}

\* C1: two start calls of one stopped, enabled channel that overlap leave at
\* most one encoder alive for it.  Under SpecStart start is the only
\* operation; while no auto-restart has been attempted every encoder alive
\* was spawned by a start call.
C1_OverlappingStartsOneEncoder ==
  \A c \in Channels : last_auto_restart_time[c] = -1 => Cardinality(Alive(c)) <= 1

\* both callers have passed the is_running check of start_channel and wait
\* for their spawn
C1_BothStartsSuspended ==
  \A t \in Callers : op[t] = "start" /\ pc[t] = "spawn" /\ chan[t] = 1

\* C2: when stop returns, the channel has no entry in the process table, the
\* watch-task table, the metadata-task table, the stop-signal table and the
\* stop-intent set, and no watch task created for it is alive.
C2_StopReturnsUnregistered ==
  last.op = "stop" =>
    /\ running[last.chan] = 0
    /\ watch_tasks[last.chan] = 0
    /\ now_playing_tasks[last.chan] = 0
    /\ now_playing_stop[last.chan] = 0
    /\ last.chan \notin stop_requested
    /\ LiveWatches(last.chan) = {}

\* a stop that went through stop_channel has returned
C2_StopChannelReturned ==
  last.op = "stop" /\ ~last.immediate

\* C3: after a stop of the channel has returned, the channel is not running
\* again before a start, a restart or a startAll is called.
C3_StoppedStaysStopped ==
  \A c \in Channels :
    hist[c] \in {"stopped", "stopped_idle", "stopped_long"} => ~is_running(c)

\* a stop has returned while a watch task of the channel waits out its delay
C3_StoppedDuringDelay ==
  \E c \in Channels :
    hist[c] = "stopped_idle" /\ \E p \in LiveWatches(c) : inst[p].watch = "sleep"

\* C4: a start or restart called between the unexpected exit and the spawn of
\* the auto-restart does not lead to a second encoder.  Under Spec one
\* operation is called at a time, so two operations never spawn for one
\* channel: a second encoder is the auto-restart's or is spawned beside it.
C4_AutoRestartNoSecondEncoder ==
  \A c \in Channels : Cardinality(Alive(c)) <= 1

\* a start waits for its spawn while the auto-restart waits for its own
C4_StartDuringAutoRestart ==
  \E t \in Callers, p \in Procs :
    pc[t] = "spawn" /\ inst[p].watch = "spawn" /\ inst[p].chan = chan[t]

\* C5: a stop that has stopped the process of the channel, followed at once
\* by a start of the channel that returns success, ends with one process registered for the channel, and no other
\* encoder of the channel alive.
C5_StopThenStartOneProcess ==
  (last.op = "start" /\ last.after_stop /\ last.res = "ok") =>
    /\ running[last.chan] # 0
    /\ Alive(last.chan) \subseteq {running[last.chan]}

\* a start called right after a stop has spawned and returned
C5_StartAfterStopReturned ==
  last.op = "start" /\ last.after_stop /\ last.res = "ok" /\ ~last.immediate

\* C6: restarts of one channel that run concurrently never end with two
\* encoders alive for it.  Under SpecRestart restart is the only operation;
\* while no auto-restart has been attempted every encoder alive was spawned
\* by a restart call.
C6_ConcurrentRestartsOneEncoder ==
  \A c \in Channels :
    last_auto_restart_time[c] = -1 => \A p, q \in Alive(c) : p = q

\* both callers run restart_channel and wait for their spawn
C6_BothRestartsSuspended ==
  \A t \in Callers : op[t] = "restart" /\ pc[t] = "spawn" /\ chan[t] = 1

\* C7: the watch task of an encoder that exited without stop-intent sleeps
\* the base delay, the escalated delay when the last auto-restart of the
\* channel is less than the cooldown window ago; its sleep ends when the
\* delay has passed, and when no operation was called or in flight since the
\* exit, the channel stayed enabled and a profile exists, the spawn of the
\* auto-restart follows.
C7_OneAttemptAfterDelay ==
  [][\A p \in Procs :
       /\ (inst[p].watch \in {"wait", "await_np"} /\ inst'[p].watch = "sleep") =>
            inst'[p].delay =
              IF last_auto_restart_time[inst[p].chan] \in 0..(CooldownWindow - 1)
              THEN EscalatedDelay ELSE BaseDelay
       /\ (inst[p].watch = "sleep" /\ inst'[p].watch # "sleep") =>
            /\ inst[p].delay = 0
            /\ (inst[p].quiet /\ hasProfile) => inst'[p].watch = "spawn"]_vars

\* C7, amended: the watch task of an encoder that exited without stop-intent
\* sleeps the base delay, the escalated delay when the auto-restart time
\* recorded for the channel (startAll clears the record) is less than the
\* cooldown window old; its sleep ends when the delay has passed; the spawn
\* of the auto-restart follows iff the channel is then not running, present,
\* enabled and a profile exists; after it the task does not sleep again.
C7_AttemptUnlessRunning ==
  [][\A p \in Procs :
       /\ (inst[p].watch \in {"wait", "await_np"} /\ inst'[p].watch = "sleep") =>
            inst'[p].delay =
              IF last_auto_restart_time[inst[p].chan] \in 0..(CooldownWindow - 1)
              THEN EscalatedDelay ELSE BaseDelay
       /\ (inst[p].watch = "sleep" /\ inst'[p].watch # "sleep") =>
            /\ inst[p].delay = 0
            /\ inst'[p].watch = "spawn" <=>
                 /\ running[inst[p].chan] = 0
                 /\ inst[p].chan \in known \cap enabled
                 /\ hasProfile
       /\ inst[p].watch = "spawn" => inst'[p].watch # "sleep"]_vars

\* a watch task whose escalated delay has passed undisturbed is about to wake
C7_EscalatedDelayOver ==
  \E p \in Procs :
    /\ inst[p].watch = "sleep" /\ inst[p].delay = 0 /\ inst[p].quiet
    /\ last_auto_restart_time[inst[p].chan] = EscalatedDelay

\* C8: when the stop-intent of the channel is set at the exit of its encoder,
\* the watch task of that encoder schedules no restart, and the intent is
\* cleared when stop returns.
C8_StopIntentEndsWatch ==
  /\ \A p \in Procs : inst[p].intent => inst[p].watch \notin {"sleep", "spawn"}
  /\ last.op = "stop" => last.chan \notin stop_requested

\* the encoder has exited with the stop-intent set, its watch task has not
\* run yet
C8_ExitWithIntent ==
  \E p \in Procs : inst[p].intent /\ inst[p].proc = "exited" /\ inst[p].watch = "wait"

\* C9: is_running(c) holds iff exactly one process is registered for c, and
\* never are two processes registered for one channel.
C9_RunningIffOneRegistered ==
  \A c \in Channels :
    /\ is_running(c) <=> Cardinality(Registered(c)) = 1
    /\ Cardinality(Registered(c)) <= 1

\* the channel is running while its registered encoder has exited and the
\* watch task has not yet unregistered it
C9_RunningAfterExit ==
  \E c \in Channels : is_running(c) /\ inst[running[c]].proc = "exited"

\* C10: a start of a channel that is running does not go on to spawn; it
\* returns "ok" in the same step and leaves the process table, the task
\* tables, the stop-intent set and every process and task as they were
\* (quiet, the note that no operation was called, apart).
C10_StartOnRunningIsNoOp ==
  [][\A c \in Channels :
       is_running(c) =>
         /\ \A t \in Callers : ~(op[t] = "none" /\ op'[t] = "start" /\ chan'[t] = c)
         /\ (last'.op = "start" /\ last'.chan = c /\ last'.immediate) =>
              /\ last'.res = "ok"
              /\ UNCHANGED <<running, now_playing_stop, now_playing_tasks, watch_tasks,
                             stop_requested, last_auto_restart_time>>
              /\ \A p \in Procs : [inst'[p] EXCEPT !.quiet = inst[p].quiet] = inst[p]]_vars

\* a start has returned "ok" at once while another start waits for its spawn
C10_StartReturnedAtOnce ==
  /\ last.op = "start" /\ last.immediate /\ last.res = "ok" /\ is_running(last.chan)
  /\ \E t \in Callers : pc[t] = "spawn"

\* C11: a start of a channel that is not running and is unknown, disabled
\* or names a profile that the list does not have returns "notfound",
\* "disabled" or "noprofile" in the same step, and the configuration, the
\* tables, the processes and the tasks are as they were.
C11_ErrorsWithoutEffects ==
  [][\A c \in Channels :
       (~is_running(c) /\ (c \notin known \/ c \notin enabled \/ c \notin named)) =>
         /\ \A t \in Callers : ~(op[t] = "none" /\ op'[t] = "start" /\ chan'[t] = c)
         /\ (last'.op = "start" /\ last'.chan = c /\ last'.immediate) =>
              /\ last'.res = IF c \notin known THEN "notfound"
                             ELSE IF c \notin enabled THEN "disabled" ELSE "noprofile"
              /\ UNCHANGED <<cfgVars, running, now_playing_stop, now_playing_tasks,
                             watch_tasks, stop_requested, last_auto_restart_time>>
              /\ \A p \in Procs : [inst'[p] EXCEPT !.quiet = inst[p].quiet] = inst[p]]_vars

\* C11, amended: a start of a channel that is not running and is unknown,
\* disabled or finds the list of profiles empty returns "notfound",
\* "disabled" or "noprofile" in the same step, and the configuration, the
\* tables, the processes and the tasks are as they were; a start of a known,
\* enabled channel that is not running and names a profile that the
\* non-empty list does not have returns no error: it goes on to the spawn
\* with the first profile of the list.
C11_ErrorsUnlessFallback ==
  [][\A c \in Channels :
       /\ (~is_running(c) /\ (c \notin known \/ c \notin enabled \/ ~hasProfile)) =>
            /\ \A t \in Callers : ~(op[t] = "none" /\ op'[t] = "start" /\ chan'[t] = c)
            /\ (last'.op = "start" /\ last'.chan = c /\ last'.immediate) =>
                 /\ last'.res = IF c \notin known THEN "notfound"
                                ELSE IF c \notin enabled THEN "disabled" ELSE "noprofile"
                 /\ UNCHANGED <<cfgVars, running, now_playing_stop, now_playing_tasks,
                                watch_tasks, stop_requested, last_auto_restart_time>>
                 /\ \A p \in Procs : [inst'[p] EXCEPT !.quiet = inst[p].quiet] = inst[p]
       /\ (~is_running(c) /\ c \in known \cap enabled /\ hasProfile /\ c \notin named) =>
            ~(last'.op = "start" /\ last'.chan = c /\ last'.immediate)]_vars

\* a start has returned "notfound" at once while a watch task of the deleted
\* channel waits out its delay
C11_StartOfDeletedRefused ==
  /\ last.op = "start" /\ last.immediate /\ last.res = "notfound"
  /\ \E p \in LiveWatches(last.chan) : inst[p].watch = "sleep"

RunningLoops(c) ==
  {p \in Procs : inst[p].chan = c /\ inst[p].np \in {"cycle", "idle"} /\ ~inst[p].ev}

\* C13: no metadata loop is left running whose stop signal cannot be set
\* through the stop-signal table, and when a stop of the channel has
\* returned every metadata loop started for it has finished, has its stop
\* signal set or is cancelled.
C13_NoOrphanedLoop ==
  /\ \A c \in Channels : RunningLoops(c) \subseteq {now_playing_stop[c]}
  /\ last.op = "stop" => RunningLoops(last.chan) = {}

\* two metadata loops of one channel run at the same time
C13_TwoLoopsOfOneChannel ==
  \E c \in Channels : Cardinality(RunningLoops(c)) = 2

\* C14: a metadata loop ends only when its stop signal is set or its task
\* is cancelled; a cycle that fails does not end it: the loop waits the
\* interval and begins the next cycle.
C14_LoopEndsOnSignalOrCancel ==
  [][\A n \in Procs :
       /\ (inst[n].np \in {"cycle", "idle"} /\ inst'[n].np \in {"done", "none"}) =>
            inst[n].ev
       /\ (inst[n].np = "cancelling" /\ inst'[n].np # "cancelling") =>
            inst'[n].np \in {"done", "none"}
       /\ (last'.op = "cycle_failed" /\ last'.arg = n /\ ~inst[n].ev) =>
            inst'[n].np = "idle"
       /\ (inst[n].np = "idle" /\ inst'[n].np \notin {"idle", "cancelling"}) =>
            \/ inst[n].ev /\ inst'[n].np \in {"done", "none"}
            \/ ~inst[n].ev /\ inst'[n].np = "cycle"]_vars

\* a cycle has failed while the encoder of the loop lives: the loop waits
\* for the next cycle
C14_CycleFailedLoopWaits ==
  /\ last.op = "cycle_failed"
  /\ inst[last.arg].np = "idle" /\ inst[last.arg].proc = "alive"

\* C15: every channel with an entry in the process table is a channel of
\* the persisted state: no process is registered for a deleted channel.
C15_RunningSubsetOfKnown ==
  \A c \in Channels : is_running(c) => c \in known

\* a start waits for its spawn while its channel has been deleted
C15_StartInFlightOfDeleted ==
  \E t \in Callers : op[t] = "start" /\ pc[t] = "spawn" /\ chan[t] \notin known

\* C16: a callback is called with the lines in the order of their arrival
\* and with no line twice, and when the dispatch of a line is over every
\* callback that was subscribed when it began, and was not unsubscribed
\* during it, has been called with the line.
C16_EachLineOnceInOrder ==
  /\ \A f \in Callbacks : \A j, k \in DOMAIN received[f] :
       j < k => received[f][j] < received[f][k]
  /\ (pump.state = "read" /\ pump.n > 0) =>
       \A f \in pump.snap \ pump.gone : \E k \in DOMAIN received[f] : received[f][k] = pump.n

\* a callback has unsubscribed itself during the dispatch of a line while a
\* callback subscribed after it in the list has not yet been called
C16_UnsubscribedDuringDispatch ==
  /\ pump.state = "dispatch" /\ last.op = "cb_unsub" /\ last.arg \in pump.gone
  /\ \E g \in pump.snap \ pump.gone :
       \A k \in DOMAIN received[g] : received[g][k] # pump.n

\* C17: a callback that raises does not end the dispatch of the line: the
\* iteration goes on with the next callback of the unchanged list; and the
\* dispatch of a line ends in no other way than with the line appended to
\* the log file and the pump reading on.
C17_RaisingCallbackIsPassedOver ==
  [][/\ last'.op = "cb_raise" =>
          /\ pump'.state = "dispatch" /\ pump'.i = pump.i + 1
          /\ log_listeners' = log_listeners
          /\ NextCallback' = IF pump.i + 1 < Len(log_listeners)
                              THEN log_listeners[pump.i + 2] ELSE 0
     /\ (pump.state = "dispatch" /\ pump'.state # "dispatch") =>
          /\ pump'.state = "read"
          /\ log_file' = log_file \o pump.line]_vars

\* a callback has raised and another callback is still to be called
C17_RaisedBeforeAnother ==
  last.op = "cb_raise" /\ NextCallback \notin {0, last.arg}

C19_LogSizeBounded ==
  [][/\ Len(log_file') <= MAX_CHANNEL_LOG_BYTES + MaxLineLen
     /\ Len(log_file) > MAX_CHANNEL_LOG_BYTES => Len(log_file') <= Len(log_file)]_vars

\* the file exceeds MAX_CHANNEL_LOG_BYTES and the pump is about to append
\* the line it has read
C19_PumpWritesToFullLog ==
  pump.state = "dispatch" /\ Len(log_file) > MAX_CHANNEL_LOG_BYTES

\* the names of the providers that can be asked: those named Last.fm in
\* the configured order, then the others in the configured order
TriedInOrder ==
  LET first == SelectSeq(metadata_providers, LAMBDA q : Asked(q) /\ q.name = "Last.fm")
      others == SelectSeq(metadata_providers, LAMBDA q : Asked(q) /\ q.name # "Last.fm")
      all == first \o others
  IN [j \in 1..Len(all) |-> all[j].name]

\* C20: when fetch_artist_bio has returned for an artist, then with a cache
\* entry whose bio is not null no provider was asked, the result is the
\* cached bio and the cache is as it was; otherwise the providers asked are
\* a prefix of Last.fm first and then the others in the configured order,
\* every provider asked but the last returned nothing, and the result is
\* what the last returned, written to the cache, or, when every provider
\* was asked and none returned anything, the placeholder.
C20_CacheFirstFirstSuccessWins ==
  (bio_call.pc = "done" /\ bio_call.artist) =>
    LET k == Len(bio_call.contacted) IN
    IF bio_call.cache0 \notin {"absent", "null"}
    THEN /\ bio_call.contacted = <<>>
         /\ bio_call.result = bio_call.cache0
         /\ bio_cache = bio_call.cache0
    ELSE /\ k <= Len(TriedInOrder)
         /\ bio_call.contacted = SubSeq(TriedInOrder, 1, k)
         /\ Len(bio_call.outs) = k
         /\ \A j \in 1..(k - 1) : bio_call.outs[j] = ""
         /\ IF k > 0 /\ bio_call.outs[k] # ""
            THEN bio_call.result = bio_call.outs[k] /\ bio_cache = bio_call.outs[k]
            ELSE k = Len(TriedInOrder) /\ bio_call.result = "dash" /\ bio_cache = "dash"

\* Last.fm, configured after another provider, was asked first and returned
\* nothing; the provider asked second returned the bio
C20_SecondProviderWon ==
  /\ bio_call.pc = "done" /\ Len(bio_call.contacted) = 2
  /\ bio_call.contacted[1] = "Last.fm" /\ metadata_providers[1].name # "Last.fm"
  /\ Len(metadata_providers) = 3
  /\ bio_call.result \in Bios /\ bio_cache = bio_call.result

\* str.casefold()
RECURSIVE Casefold(_)
Casefold(x) ==
  IF x = <<>> THEN x
  ELSE (IF Head(x) = "sz" THEN <<"s", "s">>
        ELSE IF Head(x) = "S" THEN <<"s">> ELSE <<Head(x)>>) \o Casefold(Tail(x))

\* a get_cached that follows a set_cached returned
CacheRead == calls.cache.set.n # 0 /\ last.op = "get_cached"

\* the last set_cached is observed by the last get_cached
Observed == calls.cache.got.found /\ calls.cache.got.bio = calls.cache.set.bio

Lettered(x) == \E k \in DOMAIN x : x[k] \notin Whitespace

ClassificationOnly(x) ==
  LET t == StripText(x) IN
  /\ t # <<>> /\ t[1] = "Group"
  /\ \E n \in 1..Len(t) :
       /\ \A k \in 2..n : t[k] \in {" ", "dot"}
       /\ SubSeq(t, n + 1, Len(t)) \in {<<>>, <<"(US)">>}

\* C22: the heuristic rejects a provider string that is not empty exactly
\* when it is a classification word of the vocabulary, optionally followed by
\* a country code in parentheses; a string with a descriptive word, alone or
\* after the classification, is accepted
C22_RejectedIffClassificationOnly ==
  (calls.typeonly.out # "none" /\ calls.typeonly.s # <<>>) =>
    (calls.typeonly.out = "rejected" <=> ClassificationOnly(calls.typeonly.s))

\* _fetch_musicbrainz dropped an answer with a type and a disambiguation
C22_DisambiguationRejected ==
  /\ last.op = "_fetch_musicbrainz"
  /\ calls.typeonly.s = <<"Group", " ", "dot", " ", "Word">>
  /\ calls.typeonly.out = "rejected"
  /\ calls.typeonly.ret = <<>>

\* the URL of an answer that may be used: the first that is not empty and
\* not the placeholder
Acceptable(answer) ==
  LET good == SelectSeq(answer.urls, LAMBDA u : u \notin {"", "placeholder"}) IN
  IF answer.failed \/ good = <<>> THEN "" ELSE Head(good)

\* the providers asked after TheAudioDB when none returns an image
AfterTheAudioDB ==
  LET asked == SelectSeq(metadata_providers, ImageAsked) IN
  <<"MusicBrainz">> \o [j \in 1..Len(asked) |-> asked[j].name]

\* C23: when fetch_artist_image_url has returned for an artist, the result
\* is the cached image file when the cache has an entry and the file is on
\* disk, else the cached URL when the entry has one, in both cases without a
\* request; else the providers asked are TheAudioDB (the configured ones up
\* to the first that answers), then MusicBrainz, then the configured
\* providers in the configured order, up to the first answer with a URL that
\* is not the placeholder, which is the result and is in the cache on
\* return; with no such answer the result is empty. A placeholder URL is
\* never the result and never in the cache.
C23_ImageResolvedInOrder ==
  /\ calls.image.result # "placeholder"
  /\ \A key \in DOMAIN calls.cache.index : calls.cache.index[key].image_url # "placeholder"
  /\ (calls.image.pc = "done" /\ calls.image.artist) =>
       LET m == calls.image
           c0 == m.cache0
           k == Len(m.contacted)
           j == Len(SelectSeq(m.contacted, LAMBDA n : n = "TheAudioDB"))
           configured == Len(SelectSeq(metadata_providers, LAMBDA q : q.name = "TheAudioDB"))
           rest == SubSeq(m.contacted, j + 1, k)
       IN IF c0.found /\ c0.image_path
          THEN m.result = "file" /\ k = 0
          ELSE IF c0.found /\ c0.image_url # ""
          THEN m.result = c0.image_url /\ k = 0
          ELSE /\ \A i \in 1..j : m.contacted[i] = "TheAudioDB"
               /\ j <= configured
               /\ Len(m.outs) = k
               /\ \A i \in 1..(j - 1) : m.outs[i].failed
               /\ (rest # <<>> /\ j < configured) => (j >= 1 /\ ~m.outs[j].failed)
               /\ Len(rest) <= Len(AfterTheAudioDB)
               /\ rest = SubSeq(AfterTheAudioDB, 1, Len(rest))
               /\ \A i \in 1..(k - 1) : Acceptable(m.outs[i]) = ""
               /\ IF k > 0 /\ Acceptable(m.outs[k]) # ""
                  THEN /\ m.result = Acceptable(m.outs[k])
                       /\ get_cached(calls.cache, ImageArtist).image_url = m.result
                  ELSE /\ rest = AfterTheAudioDB
                       /\ m.result = ""
                       /\ get_cached(calls.cache, ImageArtist).image_url = ""

\* TheAudioDB and MusicBrainz had no image and Last.fm, the second of the
\* configured providers, answered with the placeholder and a real URL
C23_PlaceholderPassedOver ==
  /\ calls.image.pc = "done"
  /\ calls.image.contacted = <<"TheAudioDB", "MusicBrainz", "Last.fm">>
  /\ calls.image.outs[3].urls = <<"placeholder", "url_a">>
  /\ calls.image.result = "url_a"

\* the lines of a wrapped text: the parts between the newlines
RECURSIVE SplitLines(_)
SplitLines(out) ==
  IF \E k \in DOMAIN out : out[k] = "nl"
  THEN LET k == CHOOSE i \in DOMAIN out : out[i] = "nl" /\ \A j \in 1..(i - 1) : out[j] # "nl"
       IN <<SubSeq(out, 1, k - 1)>> \o SplitLines(SubSeq(out, k + 1, Len(out)))
  ELSE <<out>>

\* the characters that are not whitespace, in their order
Letters(x) == SelectSeq(x, LAMBDA ch : ch \notin White)

\* C26: for every text and every positive budget _wrap_text returns lines
\* none of which is longer than the budget; every step of its loop that does
\* not take the whole rest breaks at the last space among the first budget
\* + 1 characters of the rest when there is one, and right after budget
\* characters when there is none; the characters of the text that are not
\* whitespace are the characters of the result that are not whitespace, in
\* the same order.
C26_WrappedWithinBudget ==
  (calls.wrap.called /\ calls.wrap.budget > 0) =>
    LET w == calls.wrap
        lines == SplitLines(w.out)
    IN /\ \A i \in DOMAIN lines : Len(lines[i]) <= w.budget
       /\ Letters(w.out) = Letters(w.text)
       /\ \A i \in DOMAIN w.lines :
            LET rest == w.lines[i].rest
                spaces == {k \in 2..(w.budget + 1) : k <= Len(rest) /\ rest[k] = " "}
            IN Len(rest) > w.budget =>
                 IF spaces # {}
                 THEN \E k \in spaces :
                        /\ \A j \in spaces : j <= k
                        /\ Letters(w.lines[i].line) = Letters(SubSeq(rest, 1, k - 1))
                        /\ w.lines[i].line = StripWhite(SubSeq(rest, 1, k - 1))
                 ELSE w.lines[i].line = SubSeq(rest, 1, w.budget)
       /\ w.lines # <<>> => [i \in DOMAIN w.lines |-> w.lines[i].line] = lines

\* a text wrapped into three lines, one broken at a space and one in the
\* middle of a word
C26_BrokenAtSpaceAndInWord ==
  /\ calls.wrap.called
  /\ calls.wrap.text = <<"a", " ", "b", "a", "b">>
  /\ calls.wrap.budget = 2
  /\ calls.wrap.out = <<"a", "nl", "b", "a", "nl", "b">>

\* C24: in the sync loop the change callback is called in exactly the
\* cycles whose title and artist differ from those of the cycle completed
\* before, with a callback configured, and never in the first; outside the
\* callback the previous values are those of the last cycle, also after a
\* callback that raised, and the loop goes on to its wait.
C24_CallbackOnChangeOnly ==
  LET y == calls.sync IN
  /\ Len(y.invoked) = Len(y.songs)
  /\ \A i \in DOMAIN y.songs :
       y.invoked[i] <=> (y.configured /\ i > 1 /\ y.songs[i] # y.songs[i - 1])
  /\ y.pc # "callback" =>
       y.prev = (IF y.songs = <<>> THEN <<>> ELSE y.songs[Len(y.songs)])
  /\ last.op = "sync_callback_raises" => y.pc = "wait"

\* the callback raised in the second cycle and was called again in the
\* third, whose artist differs
C24_CalledAgainAfterRaise ==
  /\ last.op = "sync_callback_raises"
  /\ calls.sync.invoked = <<FALSE, TRUE, TRUE>>
  /\ calls.sync.songs[2][1] = calls.sync.songs[3][1]

\* the last cycle's fetch failed, or gave no artist
FetchFailed == calls.sync.written.station /\ calls.sync.written.data.kind # "ok"
NoArtist ==
  /\ calls.sync.written.station /\ calls.sync.written.data.kind = "ok"
  /\ \A k \in DOMAIN calls.sync.written.data.artist : calls.sync.written.data.artist[k] = " "

\* C25 as stated: after a cycle whose fetch failed or gave an empty artist,
\* title and artist are the placeholder, the resolver was not asked, and the
\* song, artist and bio files hold the placeholder
C25_PlaceholdersOnFailureOrNoArtist ==
  (last.op = "sync_cycle" /\ (FetchFailed \/ NoArtist)) =>
    LET w == calls.sync.written IN
    /\ w.title = Dash /\ w.artist = Dash
    /\ ~w.resolver
    /\ w.song_txt = Dash /\ w.artist_txt = Dash /\ w.bio_txt = Dash

\* C25: after a cycle whose fetch failed or gave an empty artist, the artist
\* is the placeholder, the resolver was not asked, and the artist and bio
\* files hold the placeholder; the title and the song file are the
\* placeholder when the fetch failed or the document has no title, and the
\* title of the document otherwise
C25_PlaceholderArtistAndBio ==
  (last.op = "sync_cycle" /\ (FetchFailed \/ NoArtist)) =>
    LET w == calls.sync.written IN
    /\ w.artist = Dash
    /\ ~w.resolver
    /\ w.artist_txt = Dash /\ w.bio_txt = Dash
    /\ w.title = (IF FetchFailed \/ w.data.title = <<>> THEN Dash ELSE w.data.title)
    /\ w.song_txt = w.title

\* the station answered with a title and no artist
C25_TitleWithoutArtist ==
  /\ last.op = "sync_cycle" /\ NoArtist
  /\ calls.sync.written.data.title = <<"a">>
  /\ calls.sync.written.song_txt = <<"a">>
  /\ calls.sync.written.bio_txt = Dash

\* r is the integer part of v percent of size
PercentOf(r, v, size) ==
  IF v >= 0 THEN r >= 0 /\ r * 100 <= v * size /\ v * size < (r + 1) * 100
  ELSE r <= 0 /\ (-r) * 100 <= (-v) * size /\ (-v) * size < (-r + 1) * 100

\* C27: for a placement of the editor a value of up to 100 resolves to that
\* percentage of the canvas of 1920 by 1080, 50 to 960 and 540, the pixel
\* being the integer part; a value above 100, and every value of a placement
\* that is not of the editor, is the result unchanged.
C27_PercentOfCanvas ==
  calls.px.called =>
    IF calls.px.placements_from_editor /\ calls.px.v <= 100
    THEN /\ PercentOf(calls.px.x, calls.px.v, 1920)
         /\ PercentOf(calls.px.y, calls.px.v, 1080)
         /\ calls.px.v = 50 => (calls.px.x = 960 /\ calls.px.y = 540)
    ELSE calls.px.x = calls.px.v /\ calls.px.y = calls.px.v

\* the value 100 of a placement of the editor is the right and the lower
\* edge of the canvas
C27_HundredPercent ==
  /\ calls.px.called /\ calls.px.placements_from_editor
  /\ calls.px.v = 100
  /\ calls.px.x = 1920 /\ calls.px.y = 1080

\* the labels of the graph that no chain takes as an input
OpenLabels(graph) ==
  {graph[i].out : i \in DOMAIN graph}
    \ UNION {{graph[i].ins[j].label : j \in DOMAIN graph[i].ins} : i \in DOMAIN graph}

\* the inputs the command refers to: by the two maps and by the graph
ReferencedInputs(cmd) ==
  {cmd.audio_map.index}
    \cup (IF cmd.video_map.kind = "stream" THEN {cmd.video_map.index} ELSE {})
    \cup ({graph_in.input : graph_in \in UNION {{cmd.graph[i].ins[j] : j \in DOMAIN cmd.graph[i].ins}
                                                  : i \in DOMAIN cmd.graph}} \ {-1})

ElementsOf(cmd, key) ==
  LET file == CASE key = "channel_name" -> "channel_name.txt"
                [] key = "song_title" -> "song.txt"
                [] key = "artist_name" -> "artist.txt"
                [] key = "artist_bio" -> "bio.txt"
                [] OTHER -> "art.png"
      all == cmd.vf_arg \o (IF cmd.graph = <<>> THEN <<>>
                            ELSE cmd.graph[1].filters \o cmd.graph[2].filters
                                   \o cmd.graph[3].filters)
  IN IF key = "artist_image"
     THEN Len(SelectSeq(all, LAMBDA f : f.filter = "overlay"))
     ELSE Len(SelectSeq(all, LAMBDA f : f.filter = "drawtext" /\ f.textfile = file))

C30_SilenceWithoutStation ==
  (calls.build.built /\ ~calls.build.job.linked) =>
    LET cmd == calls.build.cmd IN
    /\ Len(cmd.inputs) >= 2
    /\ cmd.inputs[1] = "anullsrc"
    /\ cmd.audio_map = [kind |-> "stream", label |-> "", index |-> 0]
    /\ cmd.inputs[2] \in {"background", "color"}
    /\ cmd.video_map.kind \in {"stream", "label"}
    /\ cmd.song_txt = Dash /\ cmd.artist_txt = Dash /\ cmd.bio_txt = Dash

\* a command without station and without background file
C30_SilenceOverColor ==
  /\ calls.build.built /\ ~calls.build.job.linked
  /\ calls.build.cmd.inputs = <<"anullsrc", "color">>
  /\ calls.build.cmd.bio_txt = Dash

\* C31: when the watch task of an encoder that exited without stop-intent
\* begins its restart delay, the channel is in no table (process, metadata
\* task, stop signal, watch task), the stop signal of the encoder's metadata
\* loop is set and that loop's task has ended; while the task sleeps the
\* channel is not running.
C31_UnregisteredBeforeDelay ==
  [][\A p \in Procs :
       /\ (inst[p].watch \in {"wait", "await_np"} /\ inst'[p].watch = "sleep"
           /\ ~inst'[p].intent) =>
            /\ running'[inst[p].chan] = 0
            /\ now_playing_tasks'[inst[p].chan] = 0
            /\ now_playing_stop'[inst[p].chan] = 0
            /\ watch_tasks'[inst[p].chan] = 0
            /\ inst'[p].ev /\ inst'[p].np = "done"
       /\ (inst'[p].watch = "sleep" /\ ~inst'[p].intent) =>
            ~is_running(inst[p].chan)']_vars

\* the watch task of an encoder that exited without stop-intent sleeps
\* while a newer encoder is registered and alive, and the stop signal and
\* the watch task of the newer encoder are in no table
C31_DelayBegunWhileRunning ==
  \E p \in Procs :
    /\ inst[p].watch = "sleep" /\ inst[p].delay > 0 /\ ~inst[p].intent
    /\ is_running(inst[p].chan) /\ inst[running[inst[p].chan]].proc = "alive"
    /\ now_playing_stop[inst[p].chan] = 0 /\ watch_tasks[inst[p].chan] = 0

\* C32: the watch task goes on to the spawn of the auto-restart only from
\* the end of its delay and only if the channel is then in the persisted
\* state, enabled and not running; if the channel is then deleted or
\* disabled the task ends, no process comes to life and the four tables
\* stay as they are.
C32_SpawnOnlyIfStillWanted ==
  [][\A p \in Procs :
       /\ (inst[p].watch # "spawn" /\ inst'[p].watch = "spawn") =>
            /\ inst[p].watch = "sleep" /\ inst[p].delay = 0
            /\ inst[p].chan \in known \cap enabled
            /\ ~is_running(inst[p].chan)
       /\ (inst[p].watch = "sleep" /\ inst'[p].watch # "sleep"
           /\ inst[p].chan \notin known \cap enabled) =>
            /\ inst'[p].watch \in {"done", "none"}
            /\ UNCHANGED <<running, now_playing_stop, now_playing_tasks, watch_tasks>>
            /\ \A q \in Procs : inst'[q].proc = "alive" => inst[q].proc = "alive"]_vars

\* the delay of a watch task is over and the channel was deleted meanwhile
C32_DeletedDuringDelay ==
  \E p \in Procs :
    /\ inst[p].watch = "sleep" /\ inst[p].delay = 0 /\ ~inst[p].intent
    /\ inst[p].chan \notin known /\ ~is_running(inst[p].chan)

\* C33: a stop of a channel whose encoder lives waits for the encoder after
\* the terminate signal; when its wait ends with the encoder exited no
\* process is killed, when it ends by the timeout the encoder is killed; and
\* every stop that was called returns, whether or not the encoder exits by
\* itself and whether or not the metadata loop ends.
C33_StopReturns ==
  /\ [][\A t \in Callers :
          /\ (pc[t] = "idle" /\ op'[t] = "stop" /\ is_running_alive(chan'[t])) =>
               /\ pc'[t] = "st_term" /\ ref'[t] = running[chan'[t]]
               /\ inst'[ref'[t]].proc = "alive"
          /\ (pc[t] = "st_term" /\ pc'[t] # "st_term") =>
               /\ inst'[ref[t]].proc # "alive"
               /\ inst[ref[t]].proc = "exited" =>
                    \A q \in Procs : inst[q].proc = "alive" => inst'[q].proc = "alive"]_vars
  /\ \A t \in Callers : (op[t] = "stop" /\ pc[t] # "idle") ~> (pc[t] = "idle")

\* a stop that has sent the terminate signal waits for the metadata loop,
\* which is in a cycle, after the encoder has exited or was killed
C33_StopWaitsForLoop ==
  \E t \in Callers :
    /\ op[t] = "stop" /\ pc[t] = "st_np" /\ inst[ref[t]].np = "cycle"
    /\ inst[ref[t]].intent /\ inst[ref[t]].proc = "exited"

\* C34: once the stop event of a metadata loop is set, the loop begins no
\* cycle: the callback of the cycle in progress may come back, after it the
\* loop only ends, and it does end, from its wait without the timeout of the
\* interval.
C34_NoCycleAfterStop ==
  /\ [][calls.sync.stop =>
          /\ calls'.sync.stop
          /\ calls'.sync.cycles = calls.sync.cycles
          /\ calls'.sync.songs = calls.sync.songs
          /\ calls'.sync.written = calls.sync.written
          /\ calls.sync.pc = "callback" => calls'.sync.pc \in {"callback", "wait"}
          /\ calls.sync.pc \in {"top", "wait"} =>
               calls'.sync.pc \in {calls.sync.pc, "ended"}
          /\ calls.sync.pc = "ended" => calls'.sync.pc = "ended"]_vars
  /\ calls.sync.stop ~> (calls.sync.pc = "ended")

\* a loop that has made cycles has ended on its stop event
C34_EndedOnStop ==
  /\ last.op = "sync_ends" /\ calls.sync.pc = "ended" /\ calls.sync.stop
  /\ calls.sync.cycles >= 1 /\ calls.sync.cycles < MaxCycles

\* what the cache holds for a name
Held1(n) == get_cached(calls.cache, Name(n))

\* C35: a lookup that finds an entry with a bio, the placeholder of "none
\* found" included, returns that bio and asks no provider; a lookup that
\* finds no entry or one with a null bio asks the providers that can be
\* asked; a lookup in which none gives a bio stores the placeholder, and a
\* stored placeholder stays; a store of a bio leaves the image URL of every
\* name as it is, a store of an image URL the bio.
C35_NullIsNotNoneFound ==
  [][/\ last'.op = "bio_lookup" =>
          \E before \in {EntryBio(calls.cache, Strip(Name(last'.arg)))} :
          /\ before \notin {"absent", "null"} =>
               /\ bio_call'.pc = "done" /\ bio_call'.result = before
               /\ bio_call'.contacted = <<>>
               /\ calls'.cache.index = calls.cache.index
          /\ (before \in {"absent", "null"}
              /\ \E k \in DOMAIN metadata_providers : Asked(metadata_providers[k])) =>
               bio_call'.pc = "fetch" /\ bio_call'.contacted # <<>>
     /\ (last'.op \in {"bio_lookup", "bio_lookup_fetched"} /\ bio_call'.pc = "done"
         /\ bio_call'.cache0 \in {"absent", "null"}
         /\ \A k \in DOMAIN bio_call'.outs : bio_call'.outs[k] = "") =>
          /\ bio_call'.result = "dash"
          /\ EntryBio(calls'.cache, Strip(Name(last'.arg))) = "dash"
     /\ \A n \in 1..2 : \E old \in {get_cached(calls.cache, Name(n))},
                              new \in {get_cached(calls'.cache, Name(n))} :
          /\ old.bio = "dash" => new.bio = "dash"
          /\ last'.op \in {"bio_lookup", "bio_lookup_fetched", "bio_lookup_returned"} =>
               new.image_url = old.image_url
          /\ last'.op = "set_cached_image" => new.bio = old.bio]_vars

\* a lookup finds the entry that the store of an image URL has made, with a
\* null bio, and a provider can be asked
C35_NullBioEntryFound ==
  /\ bio_call.pc = "fetch" /\ bio_call.cache0 = "null" /\ last.op = "bio_lookup"
  /\ Held1(calls.lookup.n).image_url # ""

\* the channels for which the call of startAll that caller t has made goes
\* on to spawn an encoder
Attempted(t) ==
  IF pc[t] = "spawn" THEN {chan[t]} \cup {todo[t][i] : i \in DOMAIN todo[t]} ELSE {}

\* C36: startAll goes on to spawn an encoder for the enabled channels that
\* are not running when it is called (a profile given), for no disabled
\* channel and for no channel that is running; while it is in flight the
\* process, the watch task and the metadata loop registered for a channel
\* that was running at the call stay registered and alive.
C36_StartAllSkipsRunning ==
  [][\A t \in Callers :
       /\ (pc[t] = "idle" /\ op'[t] = "startAll" /\ hasProfile) =>
            Attempted(t)' = {c \in known \cap enabled : ~is_running(c)}
       /\ (op[t] = "startAll" /\ pc[t] = "spawn" /\ pc'[t] # "spawn") =>
            \A p \in Procs : inst[p].proc = "alive" => running'[inst[p].chan] = p]_vars

\* startAll has returned and two encoders of one channel are alive
C36_SecondEncoderByStartAll ==
  /\ last.op = "startAll"
  /\ \E c \in Channels : Cardinality(Alive(c)) = 2 /\ is_running(c)

\* C37: a channel that was not running when stopAll returned, with no
\* operation in flight, is not running as long as no start, restart or
\* startAll is called; and a channel that is running when stopAll returns,
\* by a start that overlapped, has its watch task, its metadata task and its
\* stop signal in the tables.
C37_StopAllStaysStopped ==
  /\ \A c \in Channels : hist[c] = "all_stopped" => ~is_running(c)
  /\ last.op = "stopAll" =>
       \A c \in Channels :
         is_running(c) => /\ watch_tasks[c] # 0 /\ now_playing_tasks[c] # 0
                          /\ now_playing_stop[c] # 0

\* since stopAll returned with the channel not running nothing was started,
\* and the channel is running by the auto-restart of a watch task
C37_RunningAfterStopAll ==
  \E c \in Channels :
    /\ hist[c] = "all_stopped" /\ is_running(c) /\ inst[running[c]].proc = "alive"
    /\ \A t \in Callers : pc[t] = "idle"

\* the step is watch task p's handling of the exit of its process
WatchActed(p) ==
  /\ inst[p].watch = "wait" /\ inst[p].proc = "exited" /\ inst'[p].watch # "wait"
  /\ last' = NoReturn
  /\ UNCHANGED <<pc, op, todo>>

\* C38: when the process of a watch task has exited, the watch task does not
\* remove another process of the channel from the process table, does not
\* set the stop signal and does not cancel the metadata loop registered with
\* another process.
C38_WatchActsOnOwnProcess ==
  [][\A p \in Procs :
       WatchActed(p) =>
         \E c \in {inst[p].chan} :
           /\ running[c] \notin {0, p} => running'[c] = running[c]
           /\ now_playing_stop[c] \notin {0, p} =>
                inst'[now_playing_stop[c]].ev = inst[now_playing_stop[c]].ev
           /\ now_playing_tasks[c] \notin {0, p} =>
                inst'[now_playing_tasks[c]].np = inst[now_playing_tasks[c]].np]_vars

\* watch task p has unregistered the channel and cancelled the metadata loop
\* of q, which was registered after p, is alive and was not stopped
C38_NewerEncoderUnregistered ==
  \E p \in Procs : \E q \in Procs \ {p} :
    \E c \in {inst[p].chan} :
      /\ inst[p].watch = "await_np" /\ inst[p].np_task = q
      /\ inst[q].chan = c /\ inst[q].proc = "alive" /\ inst[q].watch = "wait"
      /\ ~is_running(c) /\ c \notin stop_requested

\* the metadata loops started for c that are inside a cycle, where
\* write_now_playing_files writes the overlay files of the channel
CyclingLoops(c) == {p \in Procs : inst[p].chan = c /\ inst[p].np = "cycle"}

\* C39: at most one metadata loop of a channel is inside a cycle at any time.
C39_OneLoopCycling ==
  \A c \in Channels : Cardinality(CyclingLoops(c)) <= 1

\* the loop of an earlier run, signalled by a stop that has returned, is
\* still inside its cycle while the loop of the registered run is inside one
C39_LoopOutlivedStop ==
  \E c \in Channels : \E p \in CyclingLoops(c) : \E q \in CyclingLoops(c) \ {p} :
    /\ inst[p].ev /\ running[c] = q /\ now_playing_tasks[c] = q /\ ~inst[q].ev
    /\ inst[p].proc = "exited" /\ inst[p].watch = "done"
    /\ \A t \in Callers : pc[t] = "idle"

\* the step ends the wait of watch task p for the spawn of its auto-restart
\* and no process was spawned
RestartFailed(p) ==
  /\ inst[p].watch = "spawn" /\ inst'[p].watch # "spawn"
  /\ \A q \in Procs : inst'[q].proc = "alive" => inst[q].proc = "alive"
  /\ last' = NoReturn
  /\ UNCHANGED <<pc, op, todo>>

TypeOK ==
  /\ known \subseteq Channels /\ enabled \subseteq known /\ hasProfile \in BOOLEAN
  /\ named \subseteq known /\ (named # {} => hasProfile)
  /\ running \in [Channels -> Procs \cup {0}]
  /\ now_playing_stop \in [Channels -> Procs \cup {0}]
  /\ now_playing_tasks \in [Channels -> Procs \cup {0}]
  /\ watch_tasks \in [Channels -> Procs \cup {0}]
  /\ stop_requested \subseteq Channels
  /\ last_auto_restart_time \in [Channels -> -1..CooldownWindow]
  /\ \A p \in Procs :
       /\ inst[p].proc \in {"unborn", "alive", "exited"}
       /\ inst[p].np \in {"none", "cycle", "idle", "cancelling", "done"}
       /\ inst[p].watch \in {"none", "wait", "await_np", "sleep", "spawn", "done"}
       /\ inst[p].delay \in 0..EscalatedDelay
  /\ pump.state \in {"none", "read", "dispatch", "eof"}
  /\ pump.n \in 0..MaxLines /\ pump.i \in 0..NumCallbacks
  /\ \A k \in DOMAIN log_listeners : log_listeners[k] \in Callbacks
  /\ Len(log_file) <= MaxFileLen /\ (~log_exists => log_file = <<>>)
  /\ Len(metadata_providers) <= MaxProviders
  /\ bio_cache \in {"absent", "null", "dash"} \cup Bios
  /\ bio_call.pc \in {"idle", "fetch", "done"}

====
